---- MODULE Spec2Model ----
(***************************************************************************)
(* Model of the aggregation core of monitor_cp                             *)
(* (src/services/train_data.py, class TrainDataService): the detail cache  *)
(* (_fetch_train_details_cached), the fetch-and-merge cycle                *)
(* (_fetch_all_trains_parallel), the published snapshot (trains_data),     *)
(* the polling thread with start() and stop(), the station index and the   *)
(* read API (get_all_trains, get_train_details, get_train_route,           *)
(* get_all_stations, get_major_stations).                                  *)
(*                                                                         *)
(* Conventions.  Coordinates are in tenths of a degree (36.0 is 360).      *)
(* Times are in seconds.  A JSON value that the code only inspects through *)
(* a few operations is a record with a kind field k and a value field v.   *)
(* Python's None returned by a call is the JSON null payload NullDetail.   *)
(***************************************************************************)
EXTENDS Integers, Sequences, FiniteSets, TLC

(***************************************************************************)
(* Bounds of the model                                                     *)
(***************************************************************************)
\* number of clock ticks the model lets pass
MaxTicks == 6
\* number of distinct numeric train numbers the upstream reports
NumTrains == 2
\* number of major stations polled (the code lists 8, train_data.py:23-32)
NumStations == 2
\* number of poll cycles the model runs
MaxCycles == 2
\* The size above which the code purges is 1000 (train_data.py:179).  The
\* model is parametric in it and is checked with a small value, so that the
\* purge is reached with NumTrains train ids.
CacheCap == 1
\* number of Thread objects that start() creates
MaxThreads == 2
\* The executor of a cycle has 8 workers (train_data.py:101).  The model is
\* parametric in the size of the pool and is checked with a small value, so
\* that a cycle has more calls than workers with NumTrains train numbers.
max_workers == 2

(***************************************************************************)
(* Program constants                                                       *)
(***************************************************************************)
CacheTTL == 300
PurgeAge == 600
LatMin == 360
LatMax == 425
LngMin == -100
LngMax == -60
major_stations == <<"94-31039", "94-2006", "94-73007", "94-36004",
                    "94-30007", "94-1008", "94-29157", "94-83006">>

\* granularity of the clock: half the TTL, so that ages below, at and above
\* both thresholds occur
TickStep == CacheTTL \div 2
MaxTime == MaxTicks * TickStep

(***************************************************************************)
(* JSON values                                                             *)
(***************************************************************************)
\* a raw coordinate or train number as found in a payload
Raw(kind, val) == [k |-> kind, v |-> val]
RawNone == Raw("none", 0)

\* Python truthiness of a raw value: None, 0 and "" are falsy
Truthy(raw) ==
  CASE raw.k = "none" -> FALSE
    [] raw.k = "num"  -> raw.v # 0
    [] raw.k = "str"  -> TRUE      \* a non-empty numeric string
    [] raw.k = "bad"  -> TRUE      \* a non-empty, non-numeric string
    [] OTHER          -> FALSE     \* "empty": the empty string

\* float(raw) succeeds on numbers and numeric strings
FloatOk(raw) == raw.k \in {"num", "str"}
Float(raw) == raw.v

\* str(train.get('trainNumber'))
Digits == <<"1", "2", "3", "4">>
StrOf(raw) ==
  CASE raw.k = "none"  -> "None"
    [] raw.k = "num"   -> Digits[raw.v]
    [] raw.k = "str"   -> Digits[raw.v]
    [] OTHER           -> ""

\* the station field of a stop: absent, JSON null, or an object with a code
\* and a designation
NoStation == [k |-> "absent", code |-> "", designation |-> ""]
NullStation == [k |-> "null", code |-> "", designation |-> ""]
Station(code, name) == [k |-> "dict", code |-> code, designation |-> name]

\* a stop of a detail payload
StopAt(la, lo, st) == [latitude |-> la, longitude |-> lo, station |-> st]
Stop(la, lo) == StopAt(la, lo, NoStation)

\* a detail payload: shape is "dict", "null" (JSON null) or "list"
Detail(sh, la, lo, st) ==
  [shape |-> sh, latitude |-> la, longitude |-> lo, trainStops |-> st]
StopsList(seq) == [k |-> "list", v |-> seq]
StopsNull == [k |-> "null", v |-> <<>>]
NullDetail == Detail("null", RawNone, RawNone, StopsList(<<>>))

\* the value of a call: a payload (NullDetail is None) or a raised exception
Returned(d) == [raised |-> FALSE, v |-> d]
Raised == [raised |-> TRUE, v |-> NullDetail]
NotYet == [raised |-> FALSE, v |-> NullDetail]

(***************************************************************************)
(* What the upstream can answer                                            *)
(***************************************************************************)
Lisbon == Detail("dict", Raw("str", 387), Raw("str", -91),
                 StopsList(<<Stop(Raw("str", 387), Raw("str", -91)),
                             Stop(RawNone, Raw("str", -86)),
                             Stop(Raw("num", 411), Raw("num", -86))>>))
Porto == Detail("dict", Raw("num", 425), Raw("num", -60), StopsList(<<>>))
Madrid == Detail("dict", Raw("str", 404), Raw("str", -37), StopsList(<<>>))
NoFix == Detail("dict", Raw("num", 0), Raw("bad", 0), StopsList(<<>>))
NoStops == Detail("dict", Raw("num", 360), Raw("num", -100), StopsNull)
ErrorList == Detail("list", RawNone, RawNone, StopsList(<<>>))

DetailResponses == {Lisbon, Madrid, NoFix}

\* a summary of a station response: a dict with a train number and a
\* trainService that is a dict or null, or an item that is not a dict
Summary(num, svc) ==
  [shape |-> "dict", trainNumber |-> num, trainService |-> svc,
   source_station |-> ""]
Junk == [shape |-> "str", trainNumber |-> RawNone, trainService |-> "null",
         source_station |-> ""]
Train(n) == Summary(Raw("num", n), "dict")
TrainStr(n) == Summary(Raw("str", n), "dict")
TrainNoService(n) == Summary(Raw("num", n), "null")
TrainNoNumber == Summary(RawNone, "dict")

\* the body of a station response: a JSON list, or anything else
ListOf(seq) == [k |-> "list", v |-> seq]
NotAList == [k |-> "other", v |-> <<>>]

StationResponses ==
  {ListOf(<<Train(1), Train(2)>>),
   ListOf(<<TrainStr(1), Junk, Train(2)>>),
   ListOf(<<TrainNoService(2), Train(2)>>)}

Stations == {major_stations[n] : n \in 1..NumStations}

\* the bodies the detail endpoint answers when the cache is called directly
CacheResponses == {Lisbon, NullDetail}

NumericIds == {Digits[n] : n \in 1..NumTrains}
TrainIds == NumericIds \cup {"None"}

(***************************************************************************)
(* State                                                                   *)
(***************************************************************************)
VARIABLES
  now,                   \* time.time()
  detail_up,             \* whether the upstream detail endpoint answers
  cached_train_details,  \* self.cached_train_details: id -> (data, time)
  hist,                  \* per id, the last call that fetched it (ghost)
  detail_futures,        \* the submitted _fetch_train_details_cached calls
  mpc,                   \* where the polling thread is in its cycle
  cycle,                 \* number of cycles begun
  station_futures,       \* the submitted _fetch_trains_at_station calls
  all_trains,            \* local all_trains of the cycle
  new_trains_data,       \* local new_trains_data: the dict being built
  trains_data,           \* self.trains_data: the published dict
  heap,                  \* the content of the live dict objects
  pubval,                \* per published dict, its content when published
  rpc, r_ref, r_result,  \* a get_all_trains() call of a reader
  running,               \* self.running
  thread,                \* self.thread: the last Thread created, or NoThread
  loop,                  \* per Thread object, where it is in _fetch_loop
  calls,                 \* per caller, where it is in start() or stop()
  station_index,         \* self.station_index
  index_loads,           \* _load_station_index threads that have not ended
  api                    \* a call of another operation of the read API

vars == <<now, detail_up, cached_train_details, hist, detail_futures,
          mpc, cycle, station_futures, all_trains, new_trains_data,
          trains_data, heap, pubval, rpc, r_ref, r_result,
          running, thread, loop, calls, station_index, index_loads, api>>
service == <<running, thread, loop, calls>>
loading == <<station_index, index_loads>>
snapshot == <<trains_data, heap, pubval>>
reader == <<rpc, r_ref, r_result, api>>
pipeline == <<mpc, cycle, station_futures, all_trains, new_trains_data,
              snapshot, reader>>

EmptyMap == [x \in {} |-> x]
NoBasic == [shape |-> "none"]
NoEntry == [has |-> FALSE, data |-> NullDetail, t |-> 0]
Entry(d, t) == [has |-> TRUE, data |-> d, t |-> t]

\* the cache entry of an id, NoEntry when absent
Lookup(cache, id) ==
  IF id \in DOMAIN cache THEN Entry(cache[id].data, cache[id].t) ELSE NoEntry

\* mutants of Fresh: the boundary age is served; nothing is ever served
FreshUpToTTL(cache_time, current_time) ==
  current_time - cache_time <= CacheTTL
FreshNever(cache_time, current_time) == FALSE

(***************************************************************************)
(* Pure functions of the pipeline                                          *)
(***************************************************************************)
InBox(lat, lng) ==
  LatMin <= lat /\ lat <= LatMax /\ LngMin <= lng /\ lng <= LngMax

\* mutant of _has_valid_coordinates: the bounding box is not tested
HasCoordinates(train_details) ==
  /\ Truthy(train_details.latitude) /\ Truthy(train_details.longitude)
  /\ FloatOk(train_details.latitude) /\ FloatOk(train_details.longitude)

\* _has_valid_coordinates, lines 190-205, of a dict
HasValidCoordinates(train_details) ==
  IF ~Truthy(train_details.latitude) \/ ~Truthy(train_details.longitude)
  THEN FALSE
  ELSE IF ~FloatOk(train_details.latitude)
          \/ ~FloatOk(train_details.longitude)
  THEN FALSE
  ELSE InBox(Float(train_details.latitude), Float(train_details.longitude))

\* mutant of RouteOf: the extraction ends at the first stop that is skipped
RECURSIVE RouteUntilSkip(_)
RouteUntilSkip(stops) ==
  IF stops = <<>> THEN <<>>
  ELSE LET stop == Head(stops)
           keep == /\ Truthy(stop.latitude) /\ Truthy(stop.longitude)
                   /\ FloatOk(stop.latitude) /\ FloatOk(stop.longitude)
       IN  IF keep
           THEN << <<Float(stop.longitude), Float(stop.latitude)>> >>
                \o RouteUntilSkip(Tail(stops))
           ELSE <<>>

\* _extract_route_coordinates, lines 238-253, of a list of stops
RECURSIVE RouteOf(_)
RouteOf(stops) ==
  IF stops = <<>> THEN <<>>
  ELSE LET stop == Head(stops)
           keep == /\ Truthy(stop.latitude) /\ Truthy(stop.longitude)
                   /\ FloatOk(stop.latitude) /\ FloatOk(stop.longitude)
       IN  (IF keep
            THEN << <<Float(stop.longitude), Float(stop.latitude)>> >>
            ELSE <<>>) \o RouteOf(Tail(stops))

\* _process_train_data raises: service_info is None (line 217), or the
\* stops are None (line 243)
ProcessRaises(train_basic, train_details) ==
  \/ train_basic.trainService = "null"
  \/ train_details.trainStops.k = "null"

\* mutant of ProcessTrainData: only a number gives the record its id
ProcessTrainDataIntId(train_basic, train_details) ==
  [trainId |-> IF train_basic.trainNumber.k = "num"
               THEN StrOf(train_basic.trainNumber) ELSE "None",
   trainNumber |-> train_basic.trainNumber,
   lat |-> Float(train_details.latitude),
   lng |-> Float(train_details.longitude),
   route |-> RouteOf(train_details.trainStops.v),
   trainStops |-> train_details.trainStops.v,
   sourceStation |-> train_basic.source_station]

\* _process_train_data, lines 207-236
ProcessTrainData(train_basic, train_details) ==
  [trainId |-> StrOf(train_basic.trainNumber),
   trainNumber |-> train_basic.trainNumber,
   lat |-> Float(train_details.latitude),
   lng |-> Float(train_details.longitude),
   route |-> RouteOf(train_details.trainStops.v),
   trainStops |-> train_details.trainStops.v,
   sourceStation |-> train_basic.source_station]

\* lines 136-141: the record is added to new_trains_data
Accepted(train_basic, ret) ==
  /\ ~ret.raised
  /\ ret.v.shape = "dict"     \* None is falsy; a list has no get()
  /\ HasValidCoordinates(ret.v)
  /\ ~ProcessRaises(train_basic, ret.v)

\* lines 113-118: the items of one station are appended until one of them
\* is not a dict; a body that is not a list appends nothing
RECURSIVE Tagged(_, _)
Tagged(items, station_id) ==
  IF items = <<>> \/ Head(items).shape # "dict" THEN <<>>
  ELSE <<[Head(items) EXCEPT !.source_station = station_id]>>
       \o Tagged(Tail(items), station_id)

\* mutant of AfterStation: a malformed body discards what was collected
AfterStationReset(trains, result, station_id) ==
  IF result.k # "list" \/ \E n \in DOMAIN result.v : result.v[n].shape # "dict"
  THEN <<>>
  ELSE trains \o Tagged(result.v, station_id)

AfterStation(trains, result, station_id) ==
  IF result.k # "list" THEN trains
  ELSE trains \o Tagged(result.v, station_id)

\* mutant of UniqueTrains: every summary is kept
RECURSIVE AllSummaries(_, _)
AllSummaries(trains, seen) ==
  IF trains = <<>> THEN <<>>
  ELSE <<[train_id |-> StrOf(Head(trains).trainNumber),
          train_basic |-> Head(trains)]>>
       \o AllSummaries(Tail(trains), seen)

\* mutant of UniqueTrains: the last summary of a train number is kept
RECURSIVE UniqueTrainsLast(_, _)
UniqueTrainsLast(trains, seen) ==
  IF trains = <<>> THEN <<>>
  ELSE LET train_id == StrOf(Head(trains).trainNumber)
           later == \E n \in DOMAIN Tail(trains) :
                      StrOf(Tail(trains)[n].trainNumber) = train_id
       IN  IF train_id # "" /\ ~later
           THEN <<[train_id |-> train_id, train_basic |-> Head(trains)]>>
                \o UniqueTrainsLast(Tail(trains), seen)
           ELSE UniqueTrainsLast(Tail(trains), seen)

\* lines 121-125: unique_trains, in insertion order
RECURSIVE UniqueTrains(_, _)
UniqueTrains(trains, seen) ==
  IF trains = <<>> THEN <<>>
  ELSE LET train_id == StrOf(Head(trains).trainNumber)
       IN  IF train_id # "" /\ train_id \notin seen
           THEN <<[train_id |-> train_id, train_basic |-> Head(trains)]>>
                \o UniqueTrains(Tail(trains), seen \cup {train_id})
           ELSE UniqueTrains(Tail(trains), seen)

(***************************************************************************)
(* Pure functions of the stations API                                      *)
(***************************************************************************)
\* self.station_coords, lines 35-44, as <<lng, lat>> in tenths of a degree
station_coords ==
  [s \in {major_stations[n] : n \in 1..8} |->
     CASE s = "94-31039" -> <<-91, 388>>
       [] s = "94-2006"  -> <<-86, 411>>
       [] s = "94-73007" -> <<-79, 370>>
       [] s = "94-36004" -> <<-84, 402>>
       [] s = "94-30007" -> <<-91, 387>>
       [] s = "94-1008"  -> <<-86, 411>>
       [] s = "94-29157" -> <<-84, 415>>
       [] OTHER          -> <<-79, 386>>]

\* The station index: a JSON object from names to station ids, or another
\* JSON value.  The model keeps, per station id of an object, the first name
\* that maps to it, with its case folded; ids without a name are not in it.
IndexOf(names) == [k |-> "dict", v |-> names]
EmptyIndex == IndexOf(EmptyMap)
ListIndex == [k |-> "list", v |-> ("0" :> "lisboa oriente")]
IndexTruthy(index) == DOMAIN index.v # {}

\* the names of the major stations (lines 23-32), case folded
station_names ==
  [s \in {major_stations[n] : n \in 1..8} |->
     CASE s = "94-31039" -> "lisboa oriente"
       [] s = "94-2006"  -> "porto campanha"
       [] s = "94-73007" -> "faro"
       [] s = "94-36004" -> "coimbra-b"
       [] s = "94-30007" -> "lisboa santa apolonia"
       [] s = "94-1008"  -> "porto sao bento"
       [] s = "94-29157" -> "braga"
       [] OTHER          -> "evora"]
\* an index with every major station the model polls, and one with the
\* first of them only
FullIndex ==
  IndexOf([s \in {major_stations[n] : n \in 1..NumStations} |->
             station_names[s]])
PartIndex == IndexOf(major_stations[1] :> station_names[major_stations[1]])

\* dict.values() of a snapshot: the model visits the records in the order
\* of their ids
IdOrder == <<"1", "2", "3", "4", "None">>
Records(snap) ==
  LET ids == SelectSeq(IdOrder, LAMBDA id : id \in DOMAIN snap)
  IN  [n \in 1..Len(ids) |-> snap[ids[n]]]

\* what a helper of the API gives: a value, or an exception
Gives(v) == [raised |-> FALSE, found |-> TRUE, v |-> v]
Nothing == [raised |-> FALSE, found |-> FALSE, v |-> <<>>]
Throws == [raised |-> TRUE, found |-> FALSE, v |-> <<>>]

\* stop.get('station', {}).get('code'), lines 311, 376 and 450: None has
\* no get()
StationGetRaises(stop) == stop.station.k = "null"

\* lines 448-458: the stops of one train
RECURSIVE StopCoordinates(_, _)
StopCoordinates(stops, station_id) ==
  IF stops = <<>> THEN Nothing
  ELSE LET stop == Head(stops)
       IN  IF StationGetRaises(stop) THEN Throws
           ELSE IF /\ stop.station.code = station_id
                   /\ Truthy(stop.latitude) /\ Truthy(stop.longitude)
                   /\ FloatOk(stop.latitude) /\ FloatOk(stop.longitude)
                THEN Gives(<<Float(stop.longitude), Float(stop.latitude)>>)
                ELSE StopCoordinates(Tail(stops), station_id)

RECURSIVE TrainsCoordinates(_, _)
TrainsCoordinates(trains, station_id) ==
  IF trains = <<>> THEN Nothing
  ELSE LET r == StopCoordinates(Head(trains).trainStops, station_id)
       IN  IF r.raised \/ r.found THEN r
           ELSE TrainsCoordinates(Tail(trains), station_id)

\* _get_station_coordinates, lines 444-460
GetStationCoordinates(snap, station_id) ==
  LET r == TrainsCoordinates(Records(snap), station_id)
  IN  IF r.raised \/ r.found THEN r ELSE Gives(station_coords[station_id])

\* lines 373-383: the stops of one train, until one is at the station
RECURSIVE StopsAt(_, _)
StopsAt(stops, station_id) ==
  IF stops = <<>> THEN Nothing
  ELSE IF StationGetRaises(Head(stops)) THEN Throws
  ELSE IF Head(stops).station.code = station_id THEN Gives(<<>>)
  ELSE StopsAt(Tail(stops), station_id)

\* lines 363-383 and 386-395: the ids of the trains of the station, each once
RECURSIVE TrainsAt(_, _)
TrainsAt(trains, station_id) ==
  IF trains = <<>> THEN Gives(<<>>)
  ELSE LET train == Head(trains)
           stops == StopsAt(train.trainStops, station_id)
           rest  == TrainsAt(Tail(trains), station_id)
       IN  IF stops.raised \/ rest.raised THEN Throws
           ELSE IF train.sourceStation = station_id \/ stops.found
                THEN Gives(<<train.trainId>> \o rest.v)
                ELSE rest

\* _get_trains_at_station_from_data, lines 359-397: at most 5 trains
GetTrainsAtStationFromData(snap, station_id) ==
  LET r == TrainsAt(Records(snap), station_id)
  IN  IF r.raised THEN Throws
      ELSE Gives(SubSeq(r.v, 1, IF Len(r.v) < 5 THEN Len(r.v) ELSE 5))

\* lines 310-341, the stops of one train: a stop with a name, coordinates
\* inside the box and a station that is neither major nor discovered yet
\* makes a discovered station with this train
RECURSIVE DiscoverStops(_, _, _, _)
DiscoverStops(stops, train, major_station_names, acc) ==
  IF stops = <<>> \/ acc.raised THEN acc
  ELSE LET stop == Head(stops)
           station_name == stop.station.designation
           new ==
             /\ station_name # ""
             /\ Truthy(stop.latitude) /\ Truthy(stop.longitude)
             /\ \A d \in acc.v : d.name # station_name
             /\ FloatOk(stop.latitude) /\ FloatOk(stop.longitude)
             /\ InBox(Float(stop.latitude), Float(stop.longitude))
             /\ station_name \notin major_station_names
       IN  IF StationGetRaises(stop) THEN Throws
           ELSE DiscoverStops(Tail(stops), train, major_station_names,
                  IF new
                  THEN Gives(acc.v \cup
                         {[name |-> station_name,
                           lat |-> Float(stop.latitude),
                           lng |-> Float(stop.longitude),
                           trains |-> <<train.trainId>>]})
                  ELSE acc)

\* lines 305-356: the discovered stations of a snapshot
RECURSIVE Discover(_, _, _)
Discover(trains, major_station_names, acc) ==
  IF trains = <<>> \/ acc.raised THEN acc
  ELSE Discover(Tail(trains), major_station_names,
         DiscoverStops(Head(trains).trainStops, Head(trains),
                       major_station_names, acc))

DiscoveredStations(snap, major_station_names) ==
  Discover(Records(snap), major_station_names, Gives({}))

(***************************************************************************)
(* The detail cache                                                        *)
(***************************************************************************)
\* line 165: the entry is served without a request
Fresh(cache_time, current_time) == current_time - cache_time < CacheTTL

\* line 181: the entry is removed by a purge
Old(cache_time, current_time) == current_time - cache_time > PurgeAge

\* mutant of Store: the entry is not written before the size test
StoreNothing(cache, id, d, t) == cache

\* line 176: self.cached_train_details[cache_key] = (data, current_time)
Store(cache, id, d, t) ==
  [k \in DOMAIN cache \cup {id} |->
     IF k = id THEN [data |-> d, t |-> t] ELSE cache[k]]

\* line 183: del self.cached_train_details[k]
Delete(cache, id) == [k \in DOMAIN cache \ {id} |-> cache[k]]

\* line 179
OverCap(cache) == Cardinality(DOMAIN cache) > CacheCap

\* mutant of OldKeys: the purge finds nothing to remove
OldKeysNone(cache, current_time) == {}

\* lines 180-181
OldKeys(cache, current_time) ==
  {k \in DOMAIN cache : Old(cache[k].t, current_time)}

\* a call of _fetch_train_details_cached that has been submitted
Task(id, basic) ==
  [train_id |-> id, train_basic |-> basic, pc |-> "queued",
   current_time |-> 0, data |-> NullDetail, ret |-> NotYet,
   scan_len |-> 0, old_keys |-> {},
   \* ghost fields: requests issued, line 176 executed, line 179 found the
   \* cache above the cap, hist of the id when the call started
   reqs |-> 0, stored |-> FALSE, over |-> FALSE, prev |-> NoEntry]

Tasks == DOMAIN detail_futures
Done(tk, r) == [tk EXCEPT !.pc = "done", !.ret = r, !.old_keys = {},
                          !.scan_len = 0]
\* line 171: the call issues its request
Request(tk) == [tk EXCEPT !.pc = "request", !.reqs = 1]
SetTask(i, tk) == detail_futures' = [detail_futures EXCEPT ![i] = tk]

NoRef == -1

\* what get_train_details or get_train_route returned: nothing, a new object,
\* or the record (the route list of the record) id of the dict ref
NoHandle == [k |-> "none", ref |-> NoRef, id |-> ""]
FreshObject == [k |-> "fresh", ref |-> NoRef, id |-> ""]
RecordOf(ref, id) == [k |-> "record", ref |-> ref, id |-> id]
RouteListOf(ref, id) == [k |-> "route", ref |-> ref, id |-> id]

\* no call of the read API in progress.  refs are the dicts the call has read
\* self.trains_data as (ghost), edited whether the caller has changed what it
\* got (ghost)
NoApi == [op |-> "none", pc |-> "idle", n |-> 0, handle |-> NoHandle,
          coords |-> <<>>, majors |-> <<>>, discovered |-> {},
          refs |-> {}, raised |-> FALSE, edited |-> FALSE]

\* Thread objects, in the order start() creates them; self.thread = None
Threads == 1..MaxThreads
NoThread == 0
\* the threads of the application that call start() and stop(): two, so that
\* a call can overlap another one
Callers == {1, 2}
\* the thread that calls them in main.py (lines 396 and 401)
Main == 1
\* a caller outside start() and stop(); raised says how its last call ended,
\* stopped whether the service was stopped when its stop() call began (ghost)
NoCall == [pc |-> "idle", target |-> NoThread, raised |-> FALSE,
           stopped |-> FALSE]
\* the sleeps of _fetch_loop, lines 71 and 74
NormalInterval == 10
BackoffInterval == 30
NoFuture == [pc |-> "none", result |-> ListOf(<<>>)]

\* __init__, lines 12-20
Init ==
  /\ now = 0
  /\ detail_up = TRUE
  /\ cached_train_details = EmptyMap
  /\ hist = [id \in TrainIds |-> NoEntry]
  /\ detail_futures = <<>>
  /\ mpc = "idle"
  /\ cycle = 0
  /\ station_futures = [s \in Stations |-> NoFuture]
  /\ all_trains = <<>>
  /\ new_trains_data = NoRef
  /\ trains_data = 0
  /\ heap = (0 :> EmptyMap)
  /\ pubval = (0 :> EmptyMap)
  /\ rpc = "idle"
  /\ r_ref = NoRef
  /\ r_result = EmptyMap
  /\ running = FALSE
  /\ thread = NoThread
  /\ loop = [w \in Threads |-> "none"]
  /\ calls = [c \in Callers |-> NoCall]
  /\ station_index = EmptyIndex
  /\ index_loads = 0
  /\ api = NoApi

(***************************************************************************)
(* _fetch_train_details_cached, one action per step that other threads can *)
(* observe                                                                 *)
(***************************************************************************)
\* calls that occupy a worker of the executor
InFlight ==
  Cardinality({s \in Stations : station_futures[s].pc = "running"})
  + Cardinality({i \in Tasks :
                  detail_futures[i].pc \notin {"queued", "done", "collected"}})

\* mutant of DetailStart: the call runs without waiting for a worker
DetailStartUnbounded(i) ==
  /\ detail_futures[i].pc = "queued"
  /\ LET tk == detail_futures[i]
         t1 == [tk EXCEPT !.current_time = now, !.prev = hist[tk.train_id]]
     IN  SetTask(i, IF tk.train_id \in DOMAIN cached_train_details
                    THEN [t1 EXCEPT !.pc = "read"] ELSE Request(t1))
  /\ UNCHANGED <<loading, service, now, detail_up, cached_train_details, hist, pipeline>>

\* lines 160-163: a worker takes the call; take the time, test the key
DetailStart(i) ==
  /\ detail_futures[i].pc = "queued"
  /\ InFlight < max_workers
  /\ LET tk == detail_futures[i]
         t1 == [tk EXCEPT !.current_time = now, !.prev = hist[tk.train_id]]
     IN  SetTask(i, IF tk.train_id \in DOMAIN cached_train_details
                    THEN [t1 EXCEPT !.pc = "read"] ELSE Request(t1))
  /\ UNCHANGED <<loading, service, now, detail_up, cached_train_details, hist, pipeline>>

\* lines 164-166: read the entry, return it when fresh
DetailRead(i) ==
  /\ detail_futures[i].pc = "read"
  /\ LET tk == detail_futures[i]
         e  == Lookup(cached_train_details, tk.train_id)
     IN  SetTask(i,
           IF ~e.has THEN Done(tk, Raised)     \* KeyError, outside the try
           ELSE IF Fresh(e.t, tk.current_time) THEN Done(tk, Returned(e.data))
           ELSE Request(tk))
  /\ UNCHANGED <<loading, service, now, detail_up, cached_train_details, hist, pipeline>>

\* lines 170-176: the request answers with a body, which is stored
DetailRespond(i, d) ==
  /\ detail_futures[i].pc = "request"
  /\ detail_up
  /\ LET tk == detail_futures[i]
     IN  /\ cached_train_details' =
              Store(cached_train_details, tk.train_id, d, tk.current_time)
         /\ hist' = [hist EXCEPT ![tk.train_id] = Entry(d, tk.current_time)]
         /\ SetTask(i, [tk EXCEPT !.pc = "checksize", !.data = d,
                                   !.stored = TRUE])
  /\ UNCHANGED <<loading, service, now, detail_up, pipeline>>

\* mutant of DetailFail: the failure is cached (negative caching)
DetailFailCached(i) ==
  /\ detail_futures[i].pc = "request"
  /\ LET tk == detail_futures[i]
     IN  /\ cached_train_details' =
              Store(cached_train_details, tk.train_id, NullDetail,
                    tk.current_time)
         /\ SetTask(i, Done(tk, Returned(NullDetail)))
  /\ UNCHANGED <<loading, service, now, detail_up, hist, pipeline>>

\* lines 170-173, 186-188: the request fails
DetailFail(i) ==
  /\ detail_futures[i].pc = "request"
  /\ LET tk == detail_futures[i]
     IN  SetTask(i, Done(tk, Returned(NullDetail)))
  /\ UNCHANGED <<loading, service, now, detail_up, cached_train_details, hist, pipeline>>

\* line 179: the size test; the iteration of line 180 begins
DetailCheckSize(i) ==
  /\ detail_futures[i].pc = "checksize"
  /\ LET tk == detail_futures[i]
     IN  SetTask(i,
           IF OverCap(cached_train_details)
           THEN [tk EXCEPT !.pc = "scan", !.over = TRUE,
                           !.scan_len = Cardinality(DOMAIN cached_train_details)]
           ELSE Done(tk, Returned(tk.data)))
  /\ UNCHANGED <<loading, service, now, detail_up, cached_train_details, hist, pipeline>>

\* lines 180-181: the iteration ends; it raises RuntimeError when the size
\* of the dict changed meanwhile, which line 186 turns into None
DetailScan(i) ==
  /\ detail_futures[i].pc = "scan"
  /\ LET tk  == detail_futures[i]
         old == OldKeys(cached_train_details, tk.current_time)
     IN  SetTask(i,
           IF Cardinality(DOMAIN cached_train_details) # tk.scan_len
           THEN Done(tk, Returned(NullDetail))
           ELSE IF old = {} THEN Done(tk, Returned(tk.data))
           ELSE [tk EXCEPT !.pc = "purge", !.old_keys = old, !.scan_len = 0])
  /\ UNCHANGED <<loading, service, now, detail_up, cached_train_details, hist, pipeline>>

\* lines 182-183: one del; KeyError when another call removed the key,
\* which line 186 turns into None
DetailPurge(i, k) ==
  /\ detail_futures[i].pc = "purge"
  /\ k \in detail_futures[i].old_keys
  /\ LET tk   == detail_futures[i]
         rest == tk.old_keys \ {k}
     IN  IF k \in DOMAIN cached_train_details
         THEN /\ cached_train_details' = Delete(cached_train_details, k)
              /\ SetTask(i, IF rest = {} THEN Done(tk, Returned(tk.data))
                            ELSE [tk EXCEPT !.old_keys = rest])
         ELSE /\ SetTask(i, Done(tk, Returned(NullDetail)))
              /\ UNCHANGED cached_train_details
  /\ UNCHANGED <<loading, service, now, detail_up, hist, pipeline>>

(***************************************************************************)
(* _fetch_all_trains_parallel                                              *)
(***************************************************************************)
Keep(h, live) == [r \in DOMAIN h \cap live |-> h[r]]
Put(h, r, val) == [x \in DOMAIN h \cup {r} |-> IF x = r THEN val ELSE h[x]]
ReaderRefs ==
  (IF rpc = "idle" THEN {} ELSE {r_ref})
  \cup api.refs
  \cup (IF api.handle.ref = NoRef THEN {} ELSE {api.handle.ref})

\* mutant of AllocDict: the cycle builds in the published dict
AllocInPlace(published, live) == published

\* line 98: new_trains_data = {} is a new object
AllocDict(published, live) == CHOOSE r \in 0..3 : r \notin live

\* mutant of BeginCycle: the cycle waits for a loaded station index
BeginCycleAfterIndex(w) ==
  /\ loop[w] = "top"
  /\ running
  /\ mpc = "idle"
  /\ cycle < MaxCycles
  /\ index_loads = 0 /\ IndexTruthy(station_index)
  /\ loop' = [loop EXCEPT ![w] = "cycle"]
  /\ LET live == {trains_data} \cup ReaderRefs
         ref  == AllocDict(trains_data, live)
     IN  /\ new_trains_data' = ref
         /\ heap' = Put(Keep(heap, live), ref, EmptyMap)
  /\ cycle' = cycle + 1
  /\ station_futures' = [s \in Stations |-> [NoFuture EXCEPT !.pc = "queued"]]
  /\ all_trains' = <<>>
  /\ mpc' = "stations"
  /\ UNCHANGED <<loading, running, thread, calls, now, detail_up, cached_train_details,
                 hist, detail_futures, trains_data, pubval, reader>>

\* mutant of BeginCycle: the loop does not test self.running
BeginCycleUnchecked(w) ==
  /\ loop[w] = "top"
  /\ mpc = "idle"
  /\ cycle < MaxCycles
  /\ loop' = [loop EXCEPT ![w] = "cycle"]
  /\ LET live == {trains_data} \cup ReaderRefs
         ref  == AllocDict(trains_data, live)
     IN  /\ new_trains_data' = ref
         /\ heap' = Put(Keep(heap, live), ref, EmptyMap)
  /\ cycle' = cycle + 1
  /\ station_futures' = [s \in Stations |-> [NoFuture EXCEPT !.pc = "queued"]]
  /\ all_trains' = <<>>
  /\ mpc' = "stations"
  /\ UNCHANGED <<loading, running, thread, calls, now, detail_up, cached_train_details,
                 hist, detail_futures, trains_data, pubval, reader>>

\* line 67 found self.running true and lines 98-106: the cycle of polling
\* thread w begins and submits one call per major station.  The model follows
\* one cycle at a time: a polling thread begins its cycle when no cycle of
\* another polling thread is in progress.
BeginCycle(w) ==
  /\ loop[w] = "top"
  /\ running
  /\ mpc = "idle"
  /\ cycle < MaxCycles
  /\ loop' = [loop EXCEPT ![w] = "cycle"]
  /\ LET live == {trains_data} \cup ReaderRefs
         ref  == AllocDict(trains_data, live)
     IN  /\ new_trains_data' = ref
         /\ heap' = Put(Keep(heap, live), ref, EmptyMap)
  /\ cycle' = cycle + 1
  /\ station_futures' = [s \in Stations |-> [NoFuture EXCEPT !.pc = "queued"]]
  /\ all_trains' = <<>>
  /\ mpc' = "stations"
  /\ UNCHANGED <<loading, running, thread, calls, now, detail_up, cached_train_details,
                 hist, detail_futures, trains_data, pubval, reader>>

\* lines 101-106 with a submit that raises (the executor cannot start a
\* worker thread, or the interpreter is shutting down): the calls of the
\* first k major stations were submitted, the exception leaves the with block
BeginCycleRaises(w, k) ==
  /\ loop[w] = "top"
  /\ running
  /\ mpc = "idle"
  /\ cycle < MaxCycles
  /\ loop' = [loop EXCEPT ![w] = "cycle"]
  /\ LET live == {trains_data} \cup ReaderRefs
         ref  == AllocDict(trains_data, live)
     IN  /\ new_trains_data' = ref
         /\ heap' = Put(Keep(heap, live), ref, EmptyMap)
  /\ cycle' = cycle + 1
  /\ station_futures' =
       [s \in Stations |->
          IF \E n \in 1..k : major_stations[n] = s
          THEN [NoFuture EXCEPT !.pc = "queued"] ELSE NoFuture]
  /\ all_trains' = <<>>
  /\ mpc' = "unwinding"
  /\ UNCHANGED <<loading, running, thread, calls, now, detail_up, cached_train_details,
                 hist, detail_futures, trains_data, pubval, reader>>

\* a worker takes _fetch_trains_at_station, lines 146-150
StationStart(s) ==
  /\ station_futures[s].pc = "queued"
  /\ InFlight < max_workers
  /\ station_futures' = [station_futures EXCEPT ![s].pc = "running"]
  /\ UNCHANGED <<loading, service, now, detail_up, cached_train_details, hist, detail_futures,
                 mpc, cycle, all_trains, new_trains_data, snapshot, reader>>

\* lines 150-152: the request answers with a body
StationRespond(s, body) ==
  /\ station_futures[s].pc = "running"
  /\ station_futures' = [station_futures EXCEPT
                           ![s] = [pc |-> "done", result |-> body]]
  /\ UNCHANGED <<loading, service, now, detail_up, cached_train_details, hist, detail_futures,
                 mpc, cycle, all_trains, new_trains_data, snapshot, reader>>

\* mutant of StationFail: the failure of a station call ends the cycle
StationFailRaises(s) ==
  /\ station_futures[s].pc = "running"
  /\ station_futures' = [station_futures EXCEPT
                           ![s] = [pc |-> "done", result |-> ListOf(<<>>)]]
  /\ mpc' = "unwinding"
  /\ UNCHANGED <<loading, service, now, detail_up, cached_train_details, hist, detail_futures,
                 cycle, all_trains, new_trains_data, snapshot, reader>>

\* lines 153-155: the request fails, the call returns []
StationFail(s) ==
  /\ station_futures[s].pc = "running"
  /\ station_futures' = [station_futures EXCEPT
                           ![s] = [pc |-> "done", result |-> ListOf(<<>>)]]
  /\ UNCHANGED <<loading, service, now, detail_up, cached_train_details, hist, detail_futures,
                 mpc, cycle, all_trains, new_trains_data, snapshot, reader>>

\* lines 110-118: as_completed yields a finished station call
CollectStation(s) ==
  /\ mpc = "stations"
  /\ station_futures[s].pc = "done"
  /\ all_trains' = AfterStation(all_trains, station_futures[s].result, s)
  /\ station_futures' = [station_futures EXCEPT ![s].pc = "collected"]
  /\ UNCHANGED <<loading, service, now, detail_up, cached_train_details, hist, detail_futures,
                 mpc, cycle, new_trains_data, snapshot, reader>>

\* mutant of SubmitDetails: the detail calls are submitted as soon as one
\* station call was collected
SubmitDetailsEarly ==
  /\ mpc = "stations"
  /\ \E s \in Stations : station_futures[s].pc = "collected"
  /\ LET unique_trains == UniqueTrains(all_trains, {})
     IN  detail_futures' =
           [n \in DOMAIN unique_trains |->
              Task(unique_trains[n].train_id, unique_trains[n].train_basic)]
  /\ all_trains' = <<>>
  /\ station_futures' = [s \in Stations |-> NoFuture]
  /\ mpc' = "details"
  /\ UNCHANGED <<loading, service, now, detail_up, cached_train_details, hist, cycle,
                 new_trains_data, snapshot, reader>>

\* lines 121-131: every station call was collected; one detail call is
\* submitted per unique train
SubmitDetails ==
  /\ mpc = "stations"
  /\ \A s \in Stations : station_futures[s].pc = "collected"
  /\ LET unique_trains == UniqueTrains(all_trains, {})
     IN  detail_futures' =
           [n \in DOMAIN unique_trains |->
              Task(unique_trains[n].train_id, unique_trains[n].train_basic)]
  /\ all_trains' = <<>>                                 \* no longer read
  /\ station_futures' = [s \in Stations |-> NoFuture]   \* no longer read
  /\ mpc' = "details"
  /\ UNCHANGED <<loading, service, now, detail_up, cached_train_details, hist, cycle,
                 new_trains_data, snapshot, reader>>

\* lines 121-131 with a submit that raises: the calls of the first n unique
\* trains were submitted, the exception leaves the with block
SubmitDetailsRaises(n) ==
  /\ mpc = "stations"
  /\ \A s \in Stations : station_futures[s].pc = "collected"
  /\ LET unique_trains == UniqueTrains(all_trains, {})
     IN  /\ n < Len(unique_trains)
         /\ detail_futures' =
              [m \in 1..n |->
                 Task(unique_trains[m].train_id, unique_trains[m].train_basic)]
  /\ all_trains' = <<>>
  /\ station_futures' = [s \in Stations |-> NoFuture]
  /\ mpc' = "unwinding"
  /\ UNCHANGED <<loading, service, now, detail_up, cached_train_details, hist, cycle,
                 new_trains_data, snapshot, reader>>

\* mutant of Unwind: the exception of the cycle leaves _fetch_loop
UnwindExits(w) ==
  /\ loop[w] = "cycle"
  /\ mpc = "unwinding"
  /\ \A s \in Stations : station_futures[s].pc \in {"none", "done"}
  /\ \A i \in Tasks : detail_futures[i].pc = "done"
  /\ loop' = [loop EXCEPT ![w] = "exited"]
  /\ LET live == {trains_data} \cup ReaderRefs
     IN  /\ heap' = Keep(heap, live)
         /\ pubval' = Keep(pubval, live)
  /\ new_trains_data' = NoRef
  /\ detail_futures' = <<>>
  /\ station_futures' = [s \in Stations |-> NoFuture]
  /\ mpc' = "idle"
  /\ UNCHANGED <<loading, running, thread, calls, now, detail_up, cached_train_details,
                 hist, cycle, all_trains, trains_data, reader>>

\* mutant of Unwind: the failed cycle assigns what it has built
UnwindPublishes(w) ==
  /\ loop[w] = "cycle"
  /\ mpc = "unwinding"
  /\ \A s \in Stations : station_futures[s].pc \in {"none", "done"}
  /\ \A i \in Tasks : detail_futures[i].pc = "done"
  /\ loop' = [loop EXCEPT ![w] = "backoff"]
  /\ trains_data' = new_trains_data
  /\ LET live == {new_trains_data} \cup ReaderRefs
     IN  /\ heap' = Keep(heap, live)
         /\ pubval' = Put(Keep(pubval, live), new_trains_data,
                          heap[new_trains_data])
  /\ new_trains_data' = NoRef
  /\ detail_futures' = <<>>
  /\ station_futures' = [s \in Stations |-> NoFuture]
  /\ mpc' = "idle"
  /\ UNCHANGED <<loading, running, thread, calls, now, detail_up, cached_train_details,
                 hist, cycle, all_trains, reader>>

\* line 101, leaving the with block on an exception: shutdown(wait=True) has
\* waited for every submitted call; lines 72-74: _fetch_loop catches the
\* exception, logs it and goes to sleep for the backoff interval.  Line 143
\* is not reached.
Unwind(w) ==
  /\ loop[w] = "cycle"
  /\ mpc = "unwinding"
  /\ \A s \in Stations : station_futures[s].pc \in {"none", "done"}
  /\ \A i \in Tasks : detail_futures[i].pc = "done"
  /\ loop' = [loop EXCEPT ![w] = "backoff"]
  /\ LET live == {trains_data} \cup ReaderRefs
     IN  /\ heap' = Keep(heap, live)
         /\ pubval' = Keep(pubval, live)
  /\ new_trains_data' = NoRef
  /\ detail_futures' = <<>>
  /\ station_futures' = [s \in Stations |-> NoFuture]
  /\ mpc' = "idle"
  /\ UNCHANGED <<loading, running, thread, calls, now, detail_up, cached_train_details,
                 hist, cycle, all_trains, trains_data, reader>>

\* mutant of CollectDetail: the record is stored in the published dict
CollectDetailInPlace(i) ==
  /\ mpc = "details"
  /\ detail_futures[i].pc = "done"
  /\ LET tk == detail_futures[i]
     IN  /\ heap' =
              IF Accepted(tk.train_basic, tk.ret)
              THEN [heap EXCEPT ![trains_data] =
                      Put(@, tk.train_id,
                          ProcessTrainData(tk.train_basic, tk.ret.v))]
              ELSE heap
         /\ SetTask(i, [Task(tk.train_id, tk.train_basic)
                          EXCEPT !.pc = "collected", !.ret = tk.ret])
  /\ UNCHANGED <<loading, service, now, detail_up, cached_train_details, hist, mpc, cycle,
                 station_futures, all_trains, new_trains_data, trains_data,
                 pubval, reader>>

\* lines 133-141: as_completed yields a finished detail call
CollectDetail(i) ==
  /\ mpc = "details"
  /\ detail_futures[i].pc = "done"
  /\ LET tk == detail_futures[i]
     IN  /\ heap' =
              IF Accepted(tk.train_basic, tk.ret)
              THEN [heap EXCEPT ![new_trains_data] =
                      Put(@, tk.train_id,
                          ProcessTrainData(tk.train_basic, tk.ret.v))]
              ELSE heap
         /\ SetTask(i, [Task(tk.train_id, tk.train_basic)
                          EXCEPT !.pc = "collected", !.ret = tk.ret])
  /\ UNCHANGED <<loading, service, now, detail_up, cached_train_details, hist, mpc, cycle,
                 station_futures, all_trains, new_trains_data, trains_data,
                 pubval, reader>>

\* mutant of Publish: a cycle that found no train keeps the previous snapshot
PublishUnlessEmpty(w) ==
  /\ loop[w] = "cycle"
  /\ mpc = "details"
  /\ \A i \in Tasks : detail_futures[i].pc = "collected"
  /\ trains_data' =
       IF heap[new_trains_data] = EmptyMap THEN trains_data ELSE new_trains_data
  /\ LET live == {trains_data'} \cup ReaderRefs
     IN  /\ heap' = Keep(heap, live)
         /\ pubval' = Put(Keep(pubval, live), trains_data', heap[trains_data'])
  /\ new_trains_data' = NoRef
  /\ detail_futures' = <<>>
  /\ mpc' = "idle"
  /\ loop' = [loop EXCEPT ![w] = "sleep"]
  /\ UNCHANGED <<loading, running, thread, calls, now, detail_up, cached_train_details,
                 hist, cycle, station_futures, all_trains, reader>>

\* line 143: self.trains_data = new_trains_data; the cycle returns and line 71
\* puts the polling thread to sleep for the normal interval
Publish(w) ==
  /\ loop[w] = "cycle"
  /\ mpc = "details"
  /\ \A i \in Tasks : detail_futures[i].pc = "collected"
  /\ trains_data' = new_trains_data
  /\ LET live == {new_trains_data} \cup ReaderRefs
     IN  /\ heap' = Keep(heap, live)
         /\ pubval' = Put(Keep(pubval, live), new_trains_data,
                          heap[new_trains_data])
  /\ new_trains_data' = NoRef
  /\ detail_futures' = <<>>
  /\ mpc' = "idle"
  /\ loop' = [loop EXCEPT ![w] = "sleep"]
  /\ UNCHANGED <<loading, running, thread, calls, now, detail_up, cached_train_details,
                 hist, cycle, station_futures, all_trains, reader>>

(***************************************************************************)
(* _fetch_loop, lines 61-74                                                *)
(***************************************************************************)
\* time.sleep of line 71 or of line 74 returns.  Both sleeps are shorter than
\* a tick of the model's clock, which advances on its own.
WakeUp(w) ==
  /\ loop[w] \in {"sleep", "backoff"}
  /\ loop' = [loop EXCEPT ![w] = "top"]
  /\ UNCHANGED <<loading, running, thread, calls, now, detail_up, cached_train_details,
                 hist, detail_futures, pipeline>>

\* line 67 finds self.running false: _fetch_loop returns, the thread ends
LoopExit(w) ==
  /\ loop[w] = "top"
  /\ ~running
  /\ loop' = [loop EXCEPT ![w] = "exited"]
  /\ UNCHANGED <<loading, running, thread, calls, now, detail_up, cached_train_details,
                 hist, detail_futures, pipeline>>

\* how long the polling thread sleeps at a position of its loop
SleepSeconds(pc) ==
  IF pc = "sleep" THEN NormalInterval
  ELSE IF pc = "backoff" THEN BackoffInterval ELSE 0

(***************************************************************************)
(* start, lines 46-52, one action per access to self.running and           *)
(* self.thread                                                             *)
(***************************************************************************)
Unused == {t \in Threads : loop[t] = "none"}
SetCall(c, call) == calls' = [calls EXCEPT ![c] = call]

\* mutant of StartTest: start() does not test self.running
StartTestAlways(c) ==
  /\ calls[c].pc = "idle"
  /\ Unused # {}
  /\ SetCall(c, [NoCall EXCEPT !.pc = "start_set"])
  /\ UNCHANGED <<loading, running, thread, loop, now, detail_up, cached_train_details,
                 hist, detail_futures, pipeline>>

\* line 48: if not self.running; when it is running start() returns
StartTest(c) ==
  /\ calls[c].pc = "idle"
  /\ Unused # {}
  /\ SetCall(c, IF running THEN NoCall ELSE [NoCall EXCEPT !.pc = "start_set"])
  /\ UNCHANGED <<loading, running, thread, loop, now, detail_up, cached_train_details,
                 hist, detail_futures, pipeline>>

\* line 49: self.running = True
StartSet(c) ==
  /\ calls[c].pc = "start_set"
  /\ running' = TRUE
  /\ SetCall(c, [NoCall EXCEPT !.pc = "start_new"])
  /\ UNCHANGED <<loading, thread, loop, now, detail_up, cached_train_details,
                 hist, detail_futures, pipeline>>

\* mutant of StartNew: a later start() keeps the Thread object it has
StartReuse(c) ==
  /\ calls[c].pc = "start_new"
  /\ Unused # {}
  /\ LET t == IF thread # NoThread THEN thread
              ELSE CHOOSE t \in Unused : \A u \in Unused : t <= u
     IN  /\ thread' = t
         /\ loop' = [loop EXCEPT ![t] = IF @ = "none" THEN "created" ELSE @]
  /\ SetCall(c, [NoCall EXCEPT !.pc = "start_run"])
  /\ UNCHANGED <<loading, running, now, detail_up, cached_train_details,
                 hist, detail_futures, pipeline>>

\* line 50: self.thread = threading.Thread(...), a new Thread object
StartNew(c) ==
  /\ calls[c].pc = "start_new"
  /\ Unused # {}
  /\ LET t == CHOOSE t \in Unused : \A u \in Unused : t <= u
     IN  /\ thread' = t
         /\ loop' = [loop EXCEPT ![t] = "created"]
  /\ SetCall(c, [NoCall EXCEPT !.pc = "start_run"])
  /\ UNCHANGED <<loading, running, now, detail_up, cached_train_details,
                 hist, detail_futures, pipeline>>

\* line 51: self.thread.start() starts the Thread that self.thread holds now;
\* starting a Thread a second time raises RuntimeError.  The new Thread
\* starts a Thread for _load_station_index (lines 63-65) and is at line 67.
StartRun(c) ==
  /\ calls[c].pc = "start_run"
  /\ IF loop[thread] = "created"
     THEN /\ loop' = [loop EXCEPT ![thread] = "top"]
          /\ index_loads' = index_loads + 1
          /\ SetCall(c, NoCall)
     ELSE /\ SetCall(c, [NoCall EXCEPT !.raised = TRUE])
          /\ UNCHANGED <<loop, index_loads>>
  /\ UNCHANGED <<station_index, running, thread, now, detail_up,
                 cached_train_details, hist, detail_futures, pipeline>>

(***************************************************************************)
(* stop, lines 54-59                                                       *)
(***************************************************************************)
\* the flag is clear and no Thread is between its start and its end
StoppedService ==
  ~running /\ \A t \in Threads : loop[t] \in {"none", "exited"}

\* line 56: self.running = False
StopClear(c) ==
  /\ calls[c].pc = "idle"
  /\ running' = FALSE
  /\ SetCall(c, [NoCall EXCEPT !.pc = "stop_test", !.stopped = StoppedService])
  /\ UNCHANGED <<loading, thread, loop, now, detail_up, cached_train_details,
                 hist, detail_futures, pipeline>>

\* mutant of StopJoin: line 58 without the test of line 57
StopJoinUnguarded(c) ==
  /\ calls[c].pc = "stop_test"
  /\ SetCall(c, IF thread = NoThread \/ loop[thread] = "created"
                THEN [NoCall EXCEPT !.raised = TRUE]
                ELSE [calls[c] EXCEPT !.pc = "stop_join",
                                      !.target = thread])
  /\ UNCHANGED <<loading, running, thread, loop, now, detail_up, cached_train_details,
                 hist, detail_futures, pipeline>>

\* lines 57-58: without a Thread stop() returns; otherwise join() begins to
\* wait for the Thread that self.thread holds, and raises RuntimeError when
\* that Thread was not started yet
StopJoin(c) ==
  /\ calls[c].pc = "stop_test"
  /\ SetCall(c, IF thread = NoThread THEN NoCall
                ELSE IF loop[thread] = "created"
                     THEN [NoCall EXCEPT !.raised = TRUE]
                     ELSE [calls[c] EXCEPT !.pc = "stop_join",
                                           !.target = thread])
  /\ UNCHANGED <<loading, running, thread, loop, now, detail_up, cached_train_details,
                 hist, detail_futures, pipeline>>

\* line 58: the joined Thread has ended; line 59: stop() returns
StopReturn(c) ==
  /\ calls[c].pc = "stop_join"
  /\ loop[calls[c].target] = "exited"
  /\ SetCall(c, NoCall)
  /\ UNCHANGED <<loading, running, thread, loop, now, detail_up, cached_train_details,
                 hist, detail_futures, pipeline>>

(***************************************************************************)
(* get_all_trains, lines 255-257                                           *)
(***************************************************************************)
\* mutant of ReadBegin: the reader waits until no cycle is in progress
ReadBeginLocked ==
  /\ rpc = "idle"
  /\ api.pc = "idle"
  /\ mpc = "idle"
  /\ r_ref' = trains_data
  /\ rpc' = "copy"
  /\ UNCHANGED <<loading, service, now, detail_up, cached_train_details, hist, detail_futures,
                 mpc, cycle, station_futures, all_trains, new_trains_data,
                 snapshot, r_result, api>>

\* self.trains_data is loaded
ReadBegin ==
  /\ rpc = "idle"
  /\ api.pc = "idle"
  /\ r_ref' = trains_data
  /\ rpc' = "copy"
  /\ UNCHANGED <<loading, service, now, detail_up, cached_train_details, hist, detail_futures,
                 mpc, cycle, station_futures, all_trains, new_trains_data,
                 snapshot, r_result, api>>

\* .copy() of the loaded dict is returned
ReadCopy ==
  /\ rpc = "copy"
  /\ r_result' = heap[r_ref]
  /\ rpc' = "done"
  /\ UNCHANGED <<loading, service, now, detail_up, cached_train_details, hist, detail_futures,
                 mpc, cycle, station_futures, all_trains, new_trains_data,
                 snapshot, r_ref, api>>

\* the caller drops the result
ReadEnd ==
  /\ rpc = "done"
  /\ rpc' = "idle"
  /\ r_ref' = NoRef
  /\ r_result' = EmptyMap
  /\ LET live == {trains_data} \cup api.refs \cup
                 (IF new_trains_data = NoRef THEN {} ELSE {new_trains_data})
     IN  /\ heap' = Keep(heap, live)
         /\ pubval' = Keep(pubval, live)
  /\ UNCHANGED <<loading, service, now, detail_up, cached_train_details, hist, detail_futures,
                 mpc, cycle, station_futures, all_trains, new_trains_data,
                 trains_data, api>>

(***************************************************************************)
(* _load_station_index, lines 76-88                                        *)
(***************************************************************************)
\* line 80: the index endpoint answers, self.station_index is assigned
IndexRespond(body) ==
  /\ index_loads > 0
  /\ index_loads' = index_loads - 1
  /\ station_index' = body
  /\ UNCHANGED <<service, now, detail_up, cached_train_details, hist,
                 detail_futures, pipeline>>

\* lines 87-88: the request fails, the index stays as it is
IndexFail ==
  /\ index_loads > 0
  /\ index_loads' = index_loads - 1
  /\ UNCHANGED <<station_index, service, now, detail_up, cached_train_details,
                 hist, detail_futures, pipeline>>

(***************************************************************************)
(* get_train_details, get_train_route, get_all_stations and                *)
(* get_major_stations, lines 259-442.  The model follows one call of the   *)
(* read API at a time.                                                     *)
(***************************************************************************)
\* what a call of the read API leaves alone
not_api == <<loading, service, now, detail_up, cached_train_details, hist,
             detail_futures, mpc, cycle, station_futures, all_trains,
             new_trains_data, rpc, r_ref, r_result>>
NoReadCall == rpc = "idle" /\ api.pc = "idle"
ApiDone(op) == [NoApi EXCEPT !.op = op, !.pc = "done"]

\* lines 261-264: the record of the published dict, or None
GetTrainDetails(train_id) ==
  /\ NoReadCall
  /\ api' = [ApiDone("details") EXCEPT
               !.refs = {trains_data},
               !.handle = IF train_id \in DOMAIN heap[trains_data]
                          THEN RecordOf(trains_data, train_id)
                          ELSE NoHandle]
  /\ UNCHANGED <<not_api, snapshot>>

\* lines 268-271: the route list of the record, or a new empty list
GetTrainRoute(train_id) ==
  /\ NoReadCall
  /\ api' = [ApiDone("route") EXCEPT
               !.refs = {trains_data},
               !.handle = IF train_id \in DOMAIN heap[trains_data]
                          THEN RouteListOf(trains_data, train_id)
                          ELSE FreshObject]
  /\ UNCHANGED <<not_api, snapshot>>

\* the caller of get_train_details assigns to a key of what it got
CallerEditsRecord ==
  /\ api.pc = "done" /\ api.handle.k = "record" /\ ~api.edited
  /\ heap' = [heap EXCEPT ![api.handle.ref][api.handle.id].lat = 0]
  /\ api' = [api EXCEPT !.edited = TRUE]
  /\ UNCHANGED <<not_api, trains_data, pubval>>

\* the caller of get_train_route appends a point to what it got; the model
\* follows the first such point of a list
CallerEditsRoute ==
  /\ api.pc = "done" /\ api.handle.k \in {"route", "fresh"} /\ ~api.edited
  /\ api.handle.k = "route" =>
       \A i \in DOMAIN heap[api.handle.ref][api.handle.id].route :
          heap[api.handle.ref][api.handle.id].route[i] # <<0, 0>>
  /\ heap' = IF api.handle.k = "fresh" THEN heap
             ELSE [heap EXCEPT ![api.handle.ref][api.handle.id].route =
                                 Append(@, <<0, 0>>)]
  /\ api' = [api EXCEPT !.edited = TRUE]
  /\ UNCHANGED <<not_api, trains_data, pubval>>

\* the caller of get_all_trains deletes a key of the mapping it got
CallerDeletesKey(train_id) ==
  /\ rpc = "done" /\ train_id \in DOMAIN r_result
  /\ r_result' = [id \in DOMAIN r_result \ {train_id} |-> r_result[id]]
  /\ UNCHANGED <<loading, service, now, detail_up, cached_train_details, hist,
                 detail_futures, mpc, cycle, station_futures, all_trains,
                 new_trains_data, snapshot, rpc, r_ref, api>>

\* the caller of get_all_trains assigns to a key of a record of the mapping
\* it got: the copy of line 257 holds the records of the dict it copied
CallerEditsCopiedRecord(train_id) ==
  /\ rpc = "done" /\ train_id \in DOMAIN r_result
  /\ r_result[train_id].lng # 0
  /\ r_result' = [r_result EXCEPT ![train_id].lng = 0]
  /\ heap' = [heap EXCEPT ![r_ref][train_id].lng = 0]
  /\ UNCHANGED <<loading, service, now, detail_up, cached_train_details, hist,
                 detail_futures, mpc, cycle, station_futures, all_trains,
                 new_trains_data, trains_data, pubval, rpc, r_ref, api>>

\* the major stations the model polls, in the order of self.major_stations
Polled == SubSeq(major_stations, 1, NumStations)
\* after the major station api.n: the next one, or the discovered stations
AfterMajor(call) ==
  IF call.n < Len(Polled) THEN [call EXCEPT !.n = @ + 1, !.pc = "major"]
  ELSE [call EXCEPT !.n = 0, !.pc = "discover"]
ApiRaises(call) ==
  [ApiDone(call.op) EXCEPT !.raised = TRUE, !.refs = call.refs]
StationEntry(station_id, coords, trains, has) ==
  [stationId |-> station_id, name |-> station_index.v[station_id],
   lng |-> coords[1], lat |-> coords[2], hasTrains |-> has, trains |-> trains]

\* lines 275-284 and 402-409: without an index the result is []; items() of
\* an index that is no JSON object raises AttributeError
StationsBegin(op) ==
  /\ NoReadCall
  /\ api' = IF ~IndexTruthy(station_index) THEN ApiDone(op)
            ELSE IF station_index.k # "dict" THEN ApiRaises(ApiDone(op))
            ELSE [NoApi EXCEPT !.op = op, !.pc = "major", !.n = 1]
  /\ UNCHANGED <<not_api, snapshot>>

\* lines 283-290 and 407-416: the name of the next major station is looked up
\* in the index and its coordinates in the stops of the published trains
StationsCoordinates ==
  /\ api.pc = "major"
  /\ LET station_id == Polled[api.n]
         coords == GetStationCoordinates(heap[trains_data], station_id)
     IN  api' =
           IF station_index.k # "dict" THEN ApiRaises(api)
           ELSE IF station_id \notin DOMAIN station_index.v
                THEN AfterMajor(api)
           ELSE IF coords.raised
                THEN ApiRaises([api EXCEPT !.refs = @ \cup {trains_data}])
           ELSE [api EXCEPT !.pc = "trains", !.coords = coords.v,
                            !.refs = @ \cup {trains_data}]
  /\ UNCHANGED <<not_api, snapshot>>

\* lines 292-302: get_all_stations lists the trains of the major station
AllStationsTrains ==
  /\ api.op = "stations" /\ api.pc = "trains"
  /\ LET station_id == Polled[api.n]
         trains == GetTrainsAtStationFromData(heap[trains_data], station_id)
     IN  api' =
           IF trains.raised
           THEN ApiRaises([api EXCEPT !.refs = @ \cup {trains_data}])
           ELSE AfterMajor(
                  [api EXCEPT
                     !.majors = Append(@, StationEntry(station_id, api.coords,
                                                trains.v, trains.v # <<>>)),
                     !.coords = <<>>,
                     !.refs = @ \cup {trains_data}])
  /\ UNCHANGED <<not_api, snapshot>>

\* _station_has_trains, lines 430-438; the stops of the model have no
\* stationId key
StationHasTrains(snap, station_id) ==
  \E id \in DOMAIN snap : snap[id].sourceStation = station_id

\* lines 417-425: get_major_stations tells whether the station has trains
MajorStationsHasTrains ==
  /\ api.op = "major" /\ api.pc = "trains"
  /\ LET station_id == Polled[api.n]
         call == AfterMajor(
                   [api EXCEPT
                      !.majors = Append(@, StationEntry(station_id, api.coords, <<>>,
                                   StationHasTrains(heap[trains_data],
                                                    station_id))),
                      !.coords = <<>>,
                      !.refs = @ \cup {trains_data}])
     IN  api' = IF call.pc = "discover" THEN [call EXCEPT !.pc = "done"]
                ELSE call
  /\ UNCHANGED <<not_api, snapshot>>

\* the names of the major stations of the result so far, line 302
MajorNames(majors) == {majors[i].name : i \in DOMAIN majors}

\* lines 304-357: get_all_stations adds the stations discovered in the stops
\* of the published trains, each with its first train
AllStationsDiscover ==
  /\ api.op = "stations" /\ api.pc = "discover"
  /\ LET found == DiscoveredStations(heap[trains_data], MajorNames(api.majors))
     IN  api' =
           IF found.raised
           THEN ApiRaises([api EXCEPT !.refs = @ \cup {trains_data}])
           ELSE [api EXCEPT !.pc = "done", !.discovered = found.v,
                            !.refs = @ \cup {trains_data}]
  /\ UNCHANGED <<not_api, snapshot>>

\* the caller drops what it got, or sees the exception
ApiEnd ==
  /\ api.pc = "done"
  /\ api' = NoApi
  /\ LET live == {trains_data} \cup
                 (IF new_trains_data = NoRef THEN {} ELSE {new_trains_data})
     IN  /\ heap' = Keep(heap, live)
         /\ pubval' = Keep(pubval, live)
  /\ UNCHANGED <<not_api, trains_data>>

(***************************************************************************)
(* Environment                                                             *)
(***************************************************************************)
\* the clock advances while the threads sleep or wait
Tick(d) ==
  /\ now + d <= MaxTime
  /\ now' = now + d
  /\ UNCHANGED <<loading, service, detail_up, cached_train_details, hist, detail_futures, pipeline>>

UpstreamChange ==
  /\ detail_up' = ~detail_up
  /\ UNCHANGED <<loading, service, now, cached_train_details, hist, detail_futures, pipeline>>

(***************************************************************************)
(* Sequential use of the cache: one call at a time                         *)
(***************************************************************************)
Call(id) ==
  /\ mpc = "idle"
  /\ detail_futures = <<>>
  /\ detail_futures' = <<Task(id, NoBasic)>>
  /\ UNCHANGED <<loading, service, now, detail_up, cached_train_details, hist, pipeline>>

Return ==
  /\ mpc = "idle"
  /\ Len(detail_futures) = 1
  /\ detail_futures[1].pc = "done"
  /\ detail_futures' = <<>>
  /\ UNCHANGED <<loading, service, now, detail_up, cached_train_details, hist, pipeline>>

NextCache ==
  \/ \E id \in NumericIds : Call(id)
  \/ \E i \in Tasks : DetailStart(i)
  \/ \E i \in Tasks : DetailRead(i)
  \/ \E i \in Tasks, d \in CacheResponses : DetailRespond(i, d)
  \/ \E i \in Tasks : DetailFail(i)
  \/ \E i \in Tasks : DetailCheckSize(i)
  \/ \E i \in Tasks : DetailScan(i)
  \/ \E i \in Tasks, k \in TrainIds : DetailPurge(i, k)
  \/ Return
  \/ Tick(TickStep)
  \/ UpstreamChange

SpecCache == Init /\ [][NextCache]_vars

(***************************************************************************)
(* The polling thread, its workers and time                                *)
(***************************************************************************)
\* the time between two cycles (the sleeps of lines 71 and 74 and whatever
\* delays the thread), long enough for every cache entry to be purged
LongSleep == PurgeAge + TickStep

\* time passes between two cycles
Sleep ==
  /\ mpc = "idle"
  /\ Tick(LongSleep)

Next ==
  \/ StartTest(Main)
  \/ StartSet(Main)
  \/ StartNew(Main)
  \/ StartRun(Main)
  \/ \E w \in Threads : BeginCycle(w)
  \/ \E s \in Stations : StationStart(s)
  \/ \E s \in Stations, body \in StationResponses : StationRespond(s, body)
  \/ \E s \in Stations : StationFail(s)
  \/ \E s \in Stations : CollectStation(s)
  \/ SubmitDetails
  \/ \E i \in Tasks : DetailStart(i)
  \/ \E i \in Tasks : DetailRead(i)
  \/ \E i \in Tasks, d \in DetailResponses : DetailRespond(i, d)
  \/ \E i \in Tasks : DetailFail(i)
  \/ \E i \in Tasks : DetailCheckSize(i)
  \/ \E i \in Tasks : DetailScan(i)
  \/ \E i \in Tasks, k \in TrainIds : DetailPurge(i, k)
  \/ \E i \in Tasks : CollectDetail(i)
  \/ \E w \in Threads : Publish(w)
  \/ \E w \in Threads : WakeUp(w)
  \/ Sleep

Spec == Init /\ [][Next]_vars

(***************************************************************************)
(* The polling thread and a reader of the snapshot                         *)
(***************************************************************************)
\* The clock stands still here too: what a reader sees does not depend on the
\* age of the entries of the cache, and lines 182-183 are not reached.
ReadBodies == {ListOf(<<Train(1), Train(2)>>)}
ReadAnswers == {Lisbon, Porto}

NextRead ==
  \/ StartTest(Main)
  \/ StartSet(Main)
  \/ StartNew(Main)
  \/ StartRun(Main)
  \/ \E w \in Threads : BeginCycle(w)
  \/ \E s \in Stations : StationStart(s)
  \/ \E s \in Stations, body \in ReadBodies : StationRespond(s, body)
  \/ \E s \in Stations : StationFail(s)
  \/ \E s \in Stations : CollectStation(s)
  \/ SubmitDetails
  \/ \E i \in Tasks : DetailStart(i)
  \/ \E i \in Tasks : DetailRead(i)
  \/ \E i \in Tasks, d \in ReadAnswers : DetailRespond(i, d)
  \/ \E i \in Tasks : DetailFail(i)
  \/ \E i \in Tasks : DetailCheckSize(i)
  \/ \E i \in Tasks : DetailScan(i)
  \/ \E i \in Tasks : CollectDetail(i)
  \/ \E w \in Threads : Publish(w)
  \/ \E w \in Threads : WakeUp(w)
  \/ ReadBegin
  \/ ReadCopy
  \/ ReadEnd

SpecRead == Init /\ [][NextRead]_vars

(***************************************************************************)
(* The service started and stopped from the main thread                    *)
(***************************************************************************)
\* The clock stands still here: no entry of the cache gets old, lines 182-183
\* are not reached.
LoopBodies == {ListOf(<<Train(1), Train(2)>>)}
LoopAnswers == {Lisbon}

NextLoop ==
  \/ StartTest(Main)
  \/ StartSet(Main)
  \/ StartNew(Main)
  \/ StartRun(Main)
  \/ StopClear(Main)
  \/ StopJoin(Main)
  \/ StopReturn(Main)
  \/ \E w \in Threads : BeginCycle(w)
  \/ \E w \in Threads, k \in 0..(NumStations - 1) : BeginCycleRaises(w, k)
  \/ \E s \in Stations : StationStart(s)
  \/ \E s \in Stations, body \in LoopBodies : StationRespond(s, body)
  \/ \E s \in Stations : StationFail(s)
  \/ \E s \in Stations : CollectStation(s)
  \/ SubmitDetails
  \/ \E n \in 0..(NumTrains - 1) : SubmitDetailsRaises(n)
  \/ \E i \in Tasks : DetailStart(i)
  \/ \E i \in Tasks : DetailRead(i)
  \/ \E i \in Tasks, d \in LoopAnswers : DetailRespond(i, d)
  \/ \E i \in Tasks : DetailFail(i)
  \/ \E i \in Tasks : DetailCheckSize(i)
  \/ \E i \in Tasks : DetailScan(i)
  \/ \E i \in Tasks : CollectDetail(i)
  \/ \E w \in Threads : Unwind(w)
  \/ \E w \in Threads : Publish(w)
  \/ \E w \in Threads : WakeUp(w)
  \/ \E w \in Threads : LoopExit(w)

SpecLoop == Init /\ [][NextLoop]_vars

\* the steps of the polling thread and of the workers of its executor
LoopStep ==
  \/ \E w \in Threads : BeginCycle(w)
  \/ \E s \in Stations : StationStart(s)
  \/ \E s \in Stations, body \in LoopBodies : StationRespond(s, body)
  \/ \E s \in Stations : CollectStation(s)
  \/ SubmitDetails
  \/ \E i \in Tasks : DetailStart(i)
  \/ \E i \in Tasks : DetailRead(i)
  \/ \E i \in Tasks, d \in LoopAnswers : DetailRespond(i, d)
  \/ \E i \in Tasks : DetailFail(i)
  \/ \E i \in Tasks : DetailCheckSize(i)
  \/ \E i \in Tasks : DetailScan(i)
  \/ \E i \in Tasks : CollectDetail(i)
  \/ \E w \in Threads : Unwind(w)
  \/ \E w \in Threads : Publish(w)
  \/ \E w \in Threads : WakeUp(w)
  \/ \E w \in Threads : LoopExit(w)

\* the steps with which a stop() call goes on after clearing the flag
StopStep == StopJoin(Main) \/ StopReturn(Main)

\* every network call returns and every thread that can run does run
FairLoop == SpecLoop /\ WF_vars(LoopStep) /\ WF_vars(StopStep)

(***************************************************************************)
(* start() and stop() called from two threads                              *)
(***************************************************************************)
NextRace ==
  \/ \E c \in Callers : StartTest(c)
  \/ \E c \in Callers : StartSet(c)
  \/ \E c \in Callers : StartNew(c)
  \/ \E c \in Callers : StartRun(c)
  \/ \E c \in Callers : StopClear(c)
  \/ \E c \in Callers : StopJoin(c)
  \/ \E c \in Callers : StopReturn(c)
  \/ \E w \in Threads : BeginCycle(w)
  \/ \E s \in Stations : StationStart(s)
  \/ \E s \in Stations, body \in LoopBodies : StationRespond(s, body)
  \/ \E s \in Stations : CollectStation(s)
  \/ SubmitDetails
  \/ \E i \in Tasks : DetailStart(i)
  \/ \E i \in Tasks : DetailRead(i)
  \/ \E i \in Tasks, d \in LoopAnswers : DetailRespond(i, d)
  \/ \E i \in Tasks : DetailCheckSize(i)
  \/ \E i \in Tasks : DetailScan(i)
  \/ \E i \in Tasks : CollectDetail(i)
  \/ \E w \in Threads : Publish(w)
  \/ \E w \in Threads : WakeUp(w)
  \/ \E w \in Threads : LoopExit(w)

SpecRace == Init /\ [][NextRace]_vars

(***************************************************************************)
(* The station calls of a cycle, with bodies of every shape                *)
(***************************************************************************)
\* bodies that arrive with status 200 and are valid JSON: a list of
\* summaries, a list with an item that is no summary, and a value that is no
\* list (an object such as {"error": ...}, null, a number, a string)
FetcherBodies == {ListOf(<<Train(1)>>), ListOf(<<Train(2), Junk>>), NotAList}

NextStation ==
  \/ StartTest(Main)
  \/ StartSet(Main)
  \/ StartNew(Main)
  \/ StartRun(Main)
  \/ \E w \in Threads : BeginCycle(w)
  \/ \E s \in Stations : StationStart(s)
  \/ \E s \in Stations, body \in FetcherBodies : StationRespond(s, body)
  \/ \E s \in Stations : StationFail(s)
  \/ \E s \in Stations : CollectStation(s)
  \/ SubmitDetails

SpecStation == Init /\ [][NextStation]_vars

(***************************************************************************)
(* The polling thread, the station index and calls of the read API         *)
(***************************************************************************)
\* a train with a stop at a major station and a stop at another station, and
\* a train with a stop whose station is JSON null
Alfa == Detail("dict", Raw("str", 387), Raw("str", -91),
               StopsList(<<StopAt(Raw("num", 388), Raw("num", -91),
                                  Station(major_stations[1], "lisboa oriente")),
                           StopAt(Raw("num", 395), Raw("num", -85),
                                  Station("94-34009", "entroncamento"))>>))
Ghost == Detail("dict", Raw("str", 387), Raw("str", -91),
                StopsList(<<StopAt(Raw("num", 395), Raw("num", -85),
                                   NullStation)>>))
ApiBodies == {ListOf(<<Train(1)>>)}
ApiAnswers == {Alfa}
StationsAnswers == {Alfa, Ghost}
IndexBodies == {FullIndex, PartIndex, ListIndex}

\* callers of get_all_trains, get_train_details and get_train_route that
\* change what they got
NextApi ==
  \/ StartTest(Main)
  \/ StartSet(Main)
  \/ StartNew(Main)
  \/ StartRun(Main)
  \/ \E w \in Threads : BeginCycle(w)
  \/ \E s \in Stations : StationStart(s)
  \/ \E s \in Stations, body \in ApiBodies : StationRespond(s, body)
  \/ \E s \in Stations : CollectStation(s)
  \/ SubmitDetails
  \/ \E i \in Tasks : DetailStart(i)
  \/ \E i \in Tasks : DetailRead(i)
  \/ \E i \in Tasks, d \in ApiAnswers : DetailRespond(i, d)
  \/ \E i \in Tasks : DetailCheckSize(i)
  \/ \E i \in Tasks : CollectDetail(i)
  \/ \E w \in Threads : Publish(w)
  \/ \E w \in Threads : WakeUp(w)
  \/ ReadBegin
  \/ ReadCopy
  \/ \E id \in NumericIds : CallerDeletesKey(id)
  \/ \E id \in NumericIds : CallerEditsCopiedRecord(id)
  \/ ReadEnd
  \/ \E id \in NumericIds : GetTrainDetails(id)
  \/ \E id \in NumericIds : GetTrainRoute(id)
  \/ CallerEditsRecord
  \/ CallerEditsRoute
  \/ ApiEnd

SpecApi == Init /\ [][NextApi]_vars

\* callers of get_all_stations and get_major_stations
NextStations ==
  \/ StartTest(Main)
  \/ StartSet(Main)
  \/ StartNew(Main)
  \/ StartRun(Main)
  \/ \E body \in IndexBodies : IndexRespond(body)
  \/ IndexFail
  \/ \E w \in Threads : BeginCycle(w)
  \/ \E s \in Stations : StationStart(s)
  \/ \E s \in Stations, body \in ApiBodies : StationRespond(s, body)
  \/ \E s \in Stations : CollectStation(s)
  \/ SubmitDetails
  \/ \E i \in Tasks : DetailStart(i)
  \/ \E i \in Tasks : DetailRead(i)
  \/ \E i \in Tasks, d \in StationsAnswers : DetailRespond(i, d)
  \/ \E i \in Tasks : DetailCheckSize(i)
  \/ \E i \in Tasks : CollectDetail(i)
  \/ \E w \in Threads : Publish(w)
  \/ \E w \in Threads : WakeUp(w)
  \/ \E op \in {"stations", "major"} : StationsBegin(op)
  \/ StationsCoordinates
  \/ AllStationsTrains
  \/ MajorStationsHasTrains
  \/ AllStationsDiscover
  \/ ApiEnd

SpecStations == Init /\ [][NextStations]_vars

(***************************************************************************)
(* A cycle with more detail calls than workers                             *)
(***************************************************************************)
\* three train ids: "1", "2" and "None", the str() of a missing number
PoolBodies == {ListOf(<<Train(1), Train(2), TrainNoNumber>>)}
PoolAnswers == {Lisbon}

NextPool ==
  \/ StartTest(Main)
  \/ StartSet(Main)
  \/ StartNew(Main)
  \/ StartRun(Main)
  \/ \E w \in Threads : BeginCycle(w)
  \/ \E s \in Stations : StationStart(s)
  \/ \E s \in Stations, body \in PoolBodies : StationRespond(s, body)
  \/ \E s \in Stations : StationFail(s)
  \/ \E s \in Stations : CollectStation(s)
  \/ SubmitDetails
  \/ \E i \in Tasks : DetailStart(i)
  \/ \E i \in Tasks : DetailRead(i)
  \/ \E i \in Tasks, d \in PoolAnswers : DetailRespond(i, d)
  \/ \E i \in Tasks : DetailFail(i)
  \/ \E i \in Tasks : DetailCheckSize(i)
  \/ \E i \in Tasks : DetailScan(i)
  \/ \E i \in Tasks : CollectDetail(i)
  \/ \E w \in Threads : Publish(w)
  \/ \E w \in Threads : WakeUp(w)

SpecPool == Init /\ [][NextPool]_vars

(***************************************************************************)
(* A cycle whose detail has stops with coordinates of every kind           *)
(***************************************************************************)
\* a coordinate of a stop: missing or null, the number 0, a number, a numeric
\* string, a string that is no number
RawCoords == {RawNone, Raw("num", 0), Raw("num", 388), Raw("str", 395),
              Raw("bad", 0)}
RouteBodies == {ListOf(<<Train(1)>>)}
RouteAnswers ==
  {Detail("dict", Raw("num", 387), Raw("num", -91),
          StopsList(<<Stop(a, b), Stop(c, Raw("num", -85))>>)) :
     a \in RawCoords, b \in {RawNone, Raw("num", 0), Raw("str", -91)},
     c \in RawCoords}

NextRoute ==
  \/ StartTest(Main)
  \/ StartSet(Main)
  \/ StartNew(Main)
  \/ StartRun(Main)
  \/ \E w \in Threads : BeginCycle(w)
  \/ \E s \in Stations : StationStart(s)
  \/ \E s \in Stations, body \in RouteBodies : StationRespond(s, body)
  \/ \E s \in Stations : CollectStation(s)
  \/ SubmitDetails
  \/ \E i \in Tasks : DetailStart(i)
  \/ \E i \in Tasks : DetailRead(i)
  \/ \E i \in Tasks, d \in RouteAnswers : DetailRespond(i, d)
  \/ \E i \in Tasks : DetailCheckSize(i)
  \/ \E i \in Tasks : CollectDetail(i)
  \/ \E w \in Threads : Publish(w)
  \/ \E w \in Threads : WakeUp(w)

SpecRoute == Init /\ [][NextRoute]_vars

(***************************************************************************)
(* The service restarted, with the loads of the station index              *)
(***************************************************************************)
ReloadBodies == {FullIndex, PartIndex}

NextReload ==
  \/ StartTest(Main)
  \/ StartSet(Main)
  \/ StartNew(Main)
  \/ StartRun(Main)
  \/ StopClear(Main)
  \/ StopJoin(Main)
  \/ StopReturn(Main)
  \/ \E body \in ReloadBodies : IndexRespond(body)
  \/ IndexFail
  \/ \E w \in Threads : BeginCycle(w)
  \/ \E s \in Stations : StationStart(s)
  \/ \E s \in Stations : StationFail(s)
  \/ \E s \in Stations : CollectStation(s)
  \/ SubmitDetails
  \/ \E w \in Threads : Publish(w)
  \/ \E w \in Threads : WakeUp(w)
  \/ \E w \in Threads : LoopExit(w)

SpecReload == Init /\ [][NextReload]_vars

(***************************************************************************)
(* get_all_stations over a snapshot of several trains                      *)
(***************************************************************************)
\* a train that stops at Entroncamento only
Beta == Detail("dict", Raw("str", 395), Raw("str", -85),
               StopsList(<<StopAt(Raw("str", 395), Raw("str", -85),
                                  Station("94-34009", "entroncamento"))>>))
DiscoverBodies == {ListOf(<<Train(1), Train(2)>>)}
DiscoverAnswers == {Alfa, Beta, Lisbon}

NextDiscover ==
  \/ StartTest(Main)
  \/ StartSet(Main)
  \/ StartNew(Main)
  \/ StartRun(Main)
  \/ IndexRespond(FullIndex)
  \/ \E w \in Threads : BeginCycle(w)
  \/ \E s \in Stations : StationStart(s)
  \/ \E s \in Stations, body \in DiscoverBodies : StationRespond(s, body)
  \/ \E s \in Stations : CollectStation(s)
  \/ SubmitDetails
  \/ \E i \in Tasks : DetailStart(i)
  \/ \E i \in Tasks : DetailRead(i)
  \/ \E i \in Tasks, d \in DiscoverAnswers : DetailRespond(i, d)
  \/ \E i \in Tasks : DetailCheckSize(i)
  \/ \E i \in Tasks : DetailScan(i)
  \/ \E i \in Tasks : CollectDetail(i)
  \/ \E w \in Threads : Publish(w)
  \/ \E w \in Threads : WakeUp(w)
  \/ StationsBegin("stations")
  \/ StationsCoordinates
  \/ AllStationsTrains
  \/ AllStationsDiscover
  \/ ApiEnd

SpecDiscover == Init /\ [][NextDiscover]_vars

(***************************************************************************)
(* Properties of the detail cache under sequential calls (SpecCache)       *)
(***************************************************************************)
Max(a, b) == IF a >= b THEN a ELSE b
Age(tk) == tk.current_time - tk.prev.t
Started(tk) == tk.pc # "queued"
\* the entry the call itself wrote at line 176 is in the cache
HasOwnEntry(tk) ==
  Lookup(cached_train_details, tk.train_id) = Entry(tk.data, tk.current_time)
\* a call started now for this id would be served from the cache
ServedNow(id) ==
  /\ id \in DOMAIN cached_train_details
  /\ Fresh(cached_train_details[id].t, now)

\* C4: a call on an id that an earlier call fetched, started less than
\* CacheTTL after that call started, issues no request and returns the value
\* of that call; started CacheTTL or more after it, it issues a request.
C4_TtlDecidesRequest ==
  \A i \in Tasks :
    LET tk == detail_futures[i]
    IN  (Started(tk) /\ tk.pc # "read" /\ tk.prev.has) =>
          IF Age(tk) < CacheTTL
          THEN tk.reqs = 0 /\ tk.pc = "done" /\ tk.ret = Returned(tk.prev.data)
          ELSE tk.reqs = 1

C4_Witness ==
  \E i \in Tasks :
    LET tk == detail_futures[i]
    IN  tk.pc = "done" /\ tk.prev.has /\ Age(tk) = CacheTTL /\ tk.reqs = 1

\* C5: the steps of a call whose request fails leave the cache as it was,
\* the call returns None, and the id is not served from the cache afterwards.
C5_FailureNotCached ==
  [][\A i \in Tasks \cap DOMAIN detail_futures' :
       LET tk == detail_futures[i]
           tn == detail_futures'[i]
       IN  (tk.pc \in {"queued", "read", "request"} /\ tn.pc # "checksize") =>
             /\ cached_train_details' = cached_train_details
             /\ (tk.pc = "request" /\ tn.pc = "done") =>
                   /\ tn.ret = Returned(NullDetail)
                   /\ ~ServedNow(tk.train_id)']_vars

C5_Witness ==
  \E i \in Tasks :
    LET tk == detail_futures[i]
    IN  /\ tk.pc = "done" /\ tk.reqs = 1 /\ ~tk.stored
        /\ tk.train_id \in DOMAIN cached_train_details

\* C6: a call that finds an entry younger than CacheTTL never waits for the
\* upstream and returns the cached value, also while the upstream is down.
C6_FreshEntryServed ==
  \A i \in Tasks :
    LET tk == detail_futures[i]
    IN  (Started(tk) /\ tk.prev.has /\ Age(tk) < CacheTTL) =>
          /\ tk.pc \in {"read", "done"}
          /\ tk.reqs = 0
          /\ tk.pc = "done" => tk.ret = Returned(tk.prev.data)

C6_Witness ==
  \E i \in Tasks :
    LET tk == detail_futures[i]
    IN  /\ tk.pc = "done" /\ tk.prev.has /\ Age(tk) < CacheTTL /\ Age(tk) > 0
        /\ ~detail_up /\ tk.ret = Returned(tk.prev.data)
        /\ tk.prev.data # NullDetail

\* C7 as stated: during the purge the new entry is not yet in the cache.
C7_PurgeBeforeInsert ==
  \A i \in Tasks :
    LET tk == detail_futures[i]
    IN  tk.pc \in {"scan", "purge"} => ~HasOwnEntry(tk)

\* C7 amended: the new entry is in the cache when the size is tested and
\* during the purge (order: insert, test the size, purge).
C7_InsertBeforePurge ==
  \A i \in Tasks :
    LET tk == detail_futures[i]
    IN  tk.pc \in {"checksize", "scan", "purge"} =>
          HasOwnEntry(tk)

C7_Witness ==
  \E i \in Tasks :
    LET tk == detail_futures[i]
    IN  tk.pc = "purge" /\ tk.old_keys # {} /\ HasOwnEntry(tk)

\* ids whose last fetch started at most PurgeAge before time t
FetchedWithin(t) ==
  {id \in TrainIds : hist[id].has /\ t - hist[id].t <= PurgeAge}
\* start of the most recent call that fetched
LastFetch ==
  IF \E id \in TrainIds : hist[id].has
  THEN CHOOSE t \in {hist[id].t : id \in {x \in TrainIds : hist[x].has}} :
         \A id \in TrainIds : hist[id].has => hist[id].t <= t
  ELSE 0
CacheSize == Cardinality(DOMAIN cached_train_details)

\* C8 as stated: when a call has returned, the cache holds at most
\* max(cap, number of ids fetched in the PurgeAge before that call).
C8_BoundedByRecentFetches ==
  \A i \in Tasks :
    LET tk == detail_futures[i]
    IN  tk.pc = "done" =>
          CacheSize <= Max(CacheCap, Cardinality(FetchedWithin(tk.current_time)))

\* C8 amended: between calls the cache holds at most max(cap, number of ids
\* fetched in the PurgeAge before the most recent fetching call), and a call
\* that found the cache above the cap after its insert leaves no entry older
\* than PurgeAge at its start.
C8_BoundedAfterFetch ==
  /\ (\A i \in Tasks : detail_futures[i].pc = "done") =>
        CacheSize <= Max(CacheCap, Cardinality(FetchedWithin(LastFetch)))
  /\ \A i \in Tasks :
        LET tk == detail_futures[i]
        IN  (tk.pc = "done" /\ tk.over) =>
              OldKeys(cached_train_details, tk.current_time) = {}

C8_Witness ==
  \E i \in Tasks :
    LET tk == detail_futures[i]
    IN  /\ tk.pc = "done" /\ tk.over /\ tk.prev.has
        /\ CacheSize <= CacheCap
        /\ \E id \in TrainIds : hist[id].has /\ id \notin DOMAIN cached_train_details

(***************************************************************************)
(* Properties of the cycle and of the snapshot                             *)
(***************************************************************************)
Published == heap[trains_data]
Building == heap[new_trains_data]
AllCollected == \A i \in Tasks : detail_futures[i].pc = "collected"

\* C1: every record of the published snapshot has its latitude and its
\* longitude inside the bounding box.
C1_SnapshotInBox ==
  \A id \in DOMAIN Published : InBox(Published[id].lat, Published[id].lng)

C1_Witness ==
  /\ mpc = "idle" /\ cycle = 1
  /\ DOMAIN Published # {}
  /\ \E id \in DOMAIN cached_train_details :
       /\ cached_train_details[id].data \in {Madrid, NoFix}
       /\ id \notin DOMAIN Published

\* C2: what get_all_trains() returns is the content that the dict it read
\* had when it was published, that is the complete result of one cycle.
C2_ReaderSeesOneCycle ==
  rpc = "done" => r_ref \in DOMAIN pubval /\ r_result = pubval[r_ref]

C2_Witness ==
  /\ rpc = "done" /\ mpc = "details"
  /\ r_result # EmptyMap
  /\ Building # EmptyMap /\ Building # r_result

\* C3: in a cycle no two detail calls are submitted for the same train id.
C3_OneDetailCallPerTrain ==
  \A i, j \in Tasks :
    i # j => detail_futures[i].train_id # detail_futures[j].train_id

\* a detail call was issued for a train that one body reported twice (only
\* the body that reports train 2 twice has a summary without trainService)
C3_Witness ==
  /\ mpc = "details"
  /\ \E i \in Tasks :
       /\ detail_futures[i].train_basic.trainService = "null"
       /\ detail_futures[i].reqs = 1

\* the call is between its insert (line 176) and its return
InSequence(tk) == tk.stored /\ tk.pc \in {"checksize", "scan", "purge"}

\* C9: at most one detail call at a time is between its insert and the end
\* of its purge.
C9_CacheMutationsExclusive ==
  Cardinality({i \in Tasks : InSequence(detail_futures[i])}) <= 1

\* a step of the cycle
CycleStep ==
  \/ \E s \in Stations : StationStart(s)
  \/ \E s \in Stations : StationFail(s)
  \/ \E s \in Stations : CollectStation(s)
  \/ SubmitDetails
  \/ \E i \in Tasks : DetailStart(i)
  \/ \E i \in Tasks : DetailRead(i)
  \/ \E i \in Tasks : DetailFail(i)
  \/ \E i \in Tasks : DetailCheckSize(i)
  \/ \E i \in Tasks : DetailScan(i)
  \/ \E i \in Tasks, k \in TrainIds : DetailPurge(i, k)
  \/ \E i \in Tasks : CollectDetail(i)
  \/ \E w \in Threads : Publish(w)

\* the body of a station was processed to its end
WellFormed(result) ==
  result.k = "list" /\ \A n \in DOMAIN result.v : result.v[n].shape = "dict"

\* C10: a cycle that has begun can always go on until it publishes; every
\* train of a station body that was processed to its end gets its detail
\* call, whatever the other stations answered; and every train whose own
\* detail call, validation and assembly succeeded is in the snapshot that
\* is published, whatever happened to the other trains.
C10_FailuresIsolated ==
  /\ [](mpc # "idle" => ENABLED CycleStep)
  /\ [][/\ (mpc = "stations" /\ mpc' = "details") =>
            \A s \in Stations :
              LET result == station_futures[s].result
              IN  WellFormed(result) =>
                    \A n \in DOMAIN result.v :
                      StrOf(result.v[n].trainNumber) # "" =>
                        \E i \in DOMAIN detail_futures' :
                          detail_futures'[i].train_id
                            = StrOf(result.v[n].trainNumber)
        /\ (mpc = "details" /\ mpc' = "idle") =>
            \A i \in Tasks :
              LET tk == detail_futures[i]
              IN  Accepted(tk.train_basic, tk.ret) =>
                    /\ tk.train_id \in DOMAIN heap'[trains_data']
                    /\ heap'[trains_data'][tk.train_id]
                         = ProcessTrainData(tk.train_basic, tk.ret.v)]_vars

\* a cycle about to publish in which the body of a station stopped at a
\* malformed item (only that body reports a train number as a string), the
\* detail call of one train failed and another train was assembled
C10_Witness ==
  /\ mpc = "details" /\ AllCollected
  /\ \E i, j, k \in Tasks :
       /\ detail_futures[i].train_basic.trainNumber.k = "str"
       /\ ~Accepted(detail_futures[j].train_basic, detail_futures[j].ret)
       /\ detail_futures[j].ret = Returned(NullDetail)
       /\ Accepted(detail_futures[k].train_basic, detail_futures[k].ret)
       /\ detail_futures[k].train_id \in DOMAIN Building
(***************************************************************************)
(* Properties of the polling loop, of start() and of stop() (SpecLoop)     *)
(***************************************************************************)
\* the polling thread that is inside _fetch_all_trains_parallel
InCycle(w) == loop[w] = "cycle"

\* C11: self.trains_data is assigned only by the last step of a cycle that
\* did not raise; no step of a cycle that raises, before or after the
\* exception, assigns it; and a step that does not assign it leaves the
\* content of the published snapshot as it was.  So the snapshot after a
\* failed cycle is the snapshot before it.
C11_FailedCycleKeepsSnapshot ==
  [][/\ trains_data' # trains_data =>
          /\ mpc = "details" /\ AllCollected
          /\ trains_data' = new_trains_data
          /\ \E w \in Threads : InCycle(w) /\ loop'[w] = "sleep"
     /\ (mpc = "unwinding" \/ mpc' = "unwinding") => trains_data' = trains_data
     /\ trains_data' = trains_data => Published' = Published]_vars

\* a second cycle raised after a first one had published trains
C11_Witness ==
  /\ \E w \in Threads : loop[w] = "backoff"
  /\ cycle = 2
  /\ DOMAIN Published # {}
  /\ DOMAIN cached_train_details # {}

\* a call of the executor ends in this step
CallEnds ==
  \/ \E s \in Stations :
       station_futures[s].pc = "running" /\ station_futures'[s].pc = "done"
  \/ \E i \in Tasks :
       /\ detail_futures[i].pc \notin {"done", "collected"}
       /\ i \in DOMAIN detail_futures' /\ detail_futures'[i].pc = "done"

\* C12: a polling thread leaves a cycle only into a sleep, of the normal
\* interval when the cycle returned (it published) and of the backoff
\* interval when the cycle raised; a sleep ends at the top of the loop and a
\* cycle begins only from there with the flag set, so there is exactly one
\* sleep between two cycles.  The end of a station call or of a detail call,
\* failed or not, never makes the cycle raise: a cycle raises only at a
\* submit.
C12_OneSleepAfterEachCycle ==
  [][/\ \A w \in Threads :
          /\ (InCycle(w) /\ loop'[w] # loop[w]) =>
               \/ /\ mpc = "details" /\ trains_data' = new_trains_data
                  /\ loop'[w] = "sleep"
                  /\ SleepSeconds(loop'[w]) = NormalInterval
               \/ /\ mpc = "unwinding" /\ trains_data' = trains_data
                  /\ loop'[w] = "backoff"
                  /\ SleepSeconds(loop'[w]) = BackoffInterval
          /\ (loop[w] \in {"sleep", "backoff"} /\ loop'[w] # loop[w]) =>
               loop'[w] = "top"
          /\ (~InCycle(w) /\ loop'[w] = "cycle") => (loop[w] = "top" /\ running)
     /\ CallEnds => (mpc' = mpc /\ loop' = loop)
     /\ (mpc # "unwinding" /\ mpc' = "unwinding") =>
          \/ mpc = "idle"
          \/ /\ mpc = "stations"
             /\ \A s \in Stations : station_futures[s].pc = "collected"]_vars

\* a first cycle returned and the thread sleeps for the normal interval,
\* although the detail call of one of the two trains failed
C12_Witness ==
  /\ \E w \in Threads : loop[w] = "sleep"
  /\ cycle = 1
  /\ Cardinality(DOMAIN Published) = 1
  /\ Cardinality(DOMAIN cached_train_details) = 1

\* C13: a stop() call that begins while the service is stopped (before any
\* start() or after an earlier stop()) never waits (the Thread it joins, if
\* any, has ended), does not raise, and none of its steps changes the flag,
\* self.thread, a Thread or the snapshot: the service stays stopped and the
\* state after the call is the state before it.  Whenever the flag is clear
\* and no call is in progress, the service is stopped.
C13_StopIdempotent ==
  /\ [](calls[Main].stopped =>
          /\ StoppedService
          /\ calls[Main].pc = "stop_join" => loop[calls[Main].target] = "exited")
  /\ []((calls[Main].pc = "idle" /\ ~running) => StoppedService)
  /\ [][(calls[Main].stopped \/ calls'[Main].stopped) =>
          /\ ~calls'[Main].raised
          /\ <<running, thread, loop, trains_data>> =
               <<FALSE, thread', loop', trains_data'>>
          /\ calls'[Main].pc \in {"idle", "stop_test", "stop_join"}]_vars

\* a stop() call before any start() is about to return
C13_WitnessBeforeStart ==
  /\ calls[Main].stopped
  /\ calls[Main].pc = "stop_test"
  /\ thread = NoThread

\* a stop() call on a service that was started and stopped joins the Thread
\* that has ended
C13_Witness ==
  /\ calls[Main].stopped
  /\ calls[Main].pc = "stop_join"
  /\ cycle > 0

\* Threads between their start and their end
Live == {t \in Threads : loop[t] \in {"top", "cycle", "sleep", "backoff"}}
InStop(c) == calls[c].pc \in {"stop_test", "stop_join"}

\* C14: no call of start() or stop() raises and no polling thread is taken
\* out of a cycle by stop() (it leaves a cycle only into a sleep and ends
\* only at the top of its loop).  Under fairness, a stop() call that finds a
\* cycle in flight returns, with the service stopped.  Whenever the service
\* is running and no call is in progress, self.thread is the one live
\* polling thread; after a restart this thread begins a cycle unless stop()
\* is called first, and every cycle that was begun ends.
C14_StopThenRestart ==
  /\ []~calls[Main].raised
  /\ [][\A t \in Threads :
          /\ (InCycle(t) /\ loop'[t] # loop[t]) =>
               loop'[t] \in {"sleep", "backoff"}
          /\ (loop[t] # "exited" /\ loop'[t] = "exited") => loop[t] = "top"]_vars
  /\ (InStop(Main) /\ \E t \in Threads : InCycle(t))
        ~> (calls[Main].pc = "idle" /\ StoppedService)
  /\ []((calls[Main].pc = "idle" /\ running) => Live = {thread})
  /\ \A t \in Threads :
       /\ (running /\ loop[t] = "top" /\ cycle < MaxCycles)
             ~> (InCycle(t) \/ ~running)
       /\ InCycle(t) ~> (loop[t] \in {"sleep", "backoff"})

\* the service was stopped and started again, and the second polling thread
\* has published trains
C14_Witness ==
  /\ loop[1] = "exited" /\ loop[2] = "sleep"
  /\ running /\ calls[Main].pc = "idle"
  /\ DOMAIN Published # {}

\* a stop() call waits for a polling thread that is in a cycle
C14_WitnessInFlight ==
  /\ calls[Main].pc = "stop_join"
  /\ InCycle(calls[Main].target)

\* C15: a polling thread begins a cycle only in a step that finds the flag
\* set, so none begins after stop() cleared it; a cycle in flight goes on
\* while the flag is clear (a call that runs can end, a cycle whose calls
\* were all collected can publish); and under fairness every live polling
\* thread ends once the flag is clear and every stop() call returns.
C15_StopObservedAtTop ==
  /\ [][\A t \in Threads : (~InCycle(t) /\ loop'[t] = "cycle") => running]_vars
  /\ [](\A t \in Threads :
          (~running /\ InCycle(t)) =>
             /\ (mpc = "details" /\ AllCollected) => ENABLED Publish(t)
             /\ \A s \in Stations :
                  station_futures[s].pc = "running" =>
                    ENABLED (\E body \in LoopBodies : StationRespond(s, body)))
  /\ \A t \in Threads : (~running /\ t \in Live) ~> (loop[t] = "exited")
  /\ InStop(Main) ~> (calls[Main].pc = "idle")

\* stop() waits for a polling thread whose cycle is about to publish trains
C15_Witness ==
  /\ calls[Main].pc = "stop_join"
  /\ InCycle(calls[Main].target)
  /\ mpc = "details" /\ AllCollected
  /\ DOMAIN Building # {}

(***************************************************************************)
(* Properties of start() and stop() called from two threads (SpecRace)     *)
(***************************************************************************)
\* C16: at most one polling thread has passed the test of line 67 and is in
\* a cycle or in the sleep that follows it.
C16_OneThreadPolling ==
  Cardinality({t \in Threads : loop[t] \in {"cycle", "sleep", "backoff"}}) <= 1

(***************************************************************************)
(* Properties of _fetch_trains_at_station (SpecStation)                    *)
(***************************************************************************)
\* C17: what a station call returns is a list of train summaries, empty when
\* the request failed or the body was malformed.
C17_FetcherReturnsSummaries ==
  \A s \in Stations :
    station_futures[s].pc = "done" => WellFormed(station_futures[s].result)

\* C17, the weaker half: what a station call returns is a list.
C17_FetcherReturnsList ==
  \A s \in Stations :
    station_futures[s].pc = "done" => station_futures[s].result.k = "list"

(***************************************************************************)
(* Properties of what the read API returns (SpecApi)                       *)
(***************************************************************************)
\* a step of a caller on the mapping, the record or the route list it got
CallerStep ==
  \/ CallerEditsRecord
  \/ CallerEditsRoute
  \/ \E id \in NumericIds : CallerDeletesKey(id)
  \/ \E id \in NumericIds : CallerEditsCopiedRecord(id)

\* C18: whatever a caller does to a mapping, a record or a route list that
\* get_all_trains, get_train_details or get_train_route returned, the
\* snapshot the store holds is unchanged.
C18_ReturnedValuesDetached ==
  [][CallerStep => Published' = Published]_vars

\* C18, the part that holds: deleting a key of the mapping get_all_trains
\* returned leaves the snapshot as it is.
C18_CopiedMappingDetached ==
  [][(\E id \in NumericIds : CallerDeletesKey(id))
        => Published' = Published]_vars

(***************************************************************************)
(* Properties of get_all_stations and get_major_stations (SpecStations)    *)
(***************************************************************************)
\* the station indexes that are JSON objects
DictIndexes == {index \in IndexBodies : index.k = "dict"}

\* the major stations 1..n of get_all_stations computed from one snapshot
RECURSIVE WholeMajors(_, _, _)
WholeMajors(snap, index, n) ==
  IF n = 0 THEN Gives(<<>>)
  ELSE LET prev == WholeMajors(snap, index, n - 1)
           station_id == Polled[n]
           coords == GetStationCoordinates(snap, station_id)
           trains == GetTrainsAtStationFromData(snap, station_id)
       IN  IF prev.raised THEN Throws
           ELSE IF station_id \notin DOMAIN index.v THEN prev
           ELSE IF coords.raised \/ trains.raised THEN Throws
           ELSE Gives(Append(prev.v,
                  [stationId |-> station_id, name |-> index.v[station_id],
                   lng |-> coords.v[1], lat |-> coords.v[2],
                   hasTrains |-> trains.v # <<>>, trains |-> trains.v]))

\* the result of get_all_stations computed from one snapshot
WholeResult(snap, index) ==
  LET majors == WholeMajors(snap, index, Len(Polled))
      found == IF majors.raised THEN Throws
               ELSE DiscoveredStations(snap, MajorNames(majors.v))
  IN  IF majors.raised \/ found.raised
      THEN [raised |-> TRUE, majors |-> <<>>, discovered |-> {}]
      ELSE [raised |-> FALSE, majors |-> majors.v, discovered |-> found.v]

AllStationsReturned ==
  api.op = "stations" /\ api.pc = "done" /\ ~api.raised /\ api.refs # {}

\* C19: the result of a call of get_all_stations is the result computed
\* from one of the snapshots that were published while the call ran.
C19_StationsFromOneSnapshot ==
  AllStationsReturned =>
    \E r \in api.refs, index \in DictIndexes :
      WholeResult(heap[r], index) =
        [raised |-> FALSE, majors |-> api.majors,
         discovered |-> api.discovered]

\* C19, the part that holds: a call that read a single snapshot returns the
\* result computed from it.
C19_SingleReadConsistent ==
  (AllStationsReturned /\ Cardinality(api.refs) = 1) =>
    C19_StationsFromOneSnapshot

\* C20: no call of the read API raises an exception.
C20_ReadApiNeverRaises == ~api.raised

(***************************************************************************)
(* Properties of the reader next to the cycle (SpecRead)                   *)
(***************************************************************************)
\* what the polling thread and the workers of its executor hold
Producer == <<mpc, cycle, station_futures, all_trains, detail_futures,
              new_trains_data, cached_train_details, loop>>

\* C21: wherever the polling thread is in its cycle, a get_all_trains() call
\* can begin and a call that has begun can return, and its steps leave the
\* state of the polling thread and of its workers as it is.
C21_ReadNeverWaits ==
  /\ [](rpc = "idle" => ENABLED ReadBegin)
  /\ [](rpc = "copy" => ENABLED ReadCopy)
  /\ [][(ReadBegin \/ ReadCopy) => UNCHANGED Producer]_vars

C21_Witness ==
  /\ rpc = "done" /\ r_ref = trains_data
  /\ mpc = "stations"
  /\ \E s \in Stations : station_futures[s].pc = "running"

(***************************************************************************)
(* Properties of the phases of a cycle (SpecLoop)                          *)
(***************************************************************************)
StationCallsOver ==
  \A s \in Stations : station_futures[s].pc \in {"done", "collected"}
DetailCallsOver ==
  \A i \in Tasks : detail_futures[i].pc \in {"done", "collected"}

\* C22: a step that submits detail calls finds every station call of the
\* cycle completed, no station call is queued or running while a detail call
\* exists, and a step that publishes finds every detail call of the cycle
\* completed.
C22_FanInBarriers ==
  /\ [][(detail_futures = <<>> /\ detail_futures' # <<>>)
          => StationCallsOver]_vars
  /\ [](Tasks # {} =>
          \A s \in Stations :
             station_futures[s].pc \notin {"queued", "running"})
  /\ [][trains_data' # trains_data => DetailCallsOver]_vars

\* the first detail call was collected and the publication waits for the
\* second one, whose request is in flight
C22_Witness ==
  /\ mpc = "details" /\ Len(detail_futures) = 2
  /\ detail_futures[1].pc = "collected"
  /\ detail_futures[2].pc = "request"

(***************************************************************************)
(* Properties of the worker pool (SpecPool)                                *)
(***************************************************************************)
\* C23: the station calls and the detail calls of a cycle that are being
\* executed are never more than the workers of the pool.
C23_PoolBoundsRequests == InFlight <= max_workers

\* every worker executes a detail call and another detail call waits
C23_Witness ==
  /\ InFlight = max_workers
  /\ \E i \in Tasks : detail_futures[i].pc = "queued"
  /\ \E i \in Tasks : detail_futures[i].pc = "request"

(***************************************************************************)
(* Properties of the content of a published snapshot (Spec)                *)
(***************************************************************************)
\* the train numbers in the summaries that the station calls returned
ReportedIds ==
  {StrOf(station_futures[s].result.v[n].trainNumber) :
     <<s, n>> \in {<<s, n>> \in Stations \X (1..3) :
                     /\ station_futures[s].result.k = "list"
                     /\ n \in DOMAIN station_futures[s].result.v
                     /\ station_futures[s].result.v[n].shape = "dict"
                     /\ station_futures[s].result.v[n].trainNumber # RawNone}}
\* the ids of the detail calls whose result makes a record
AcceptedIds ==
  {detail_futures[i].train_id :
     i \in {i \in Tasks : Accepted(detail_futures[i].train_basic,
                                   detail_futures[i].ret)}}
SubmitStep == mpc = "stations" /\ mpc' = "details"
PublishStep == trains_data' # trains_data

\* C24: a detail call is submitted for every train number that the station
\* calls of the cycle reported and for nothing else, and the keys of the
\* snapshot that the cycle publishes are the ids of those calls that returned
\* a detail with valid coordinates and whose record could be assembled.
C24_PublishedAreValidReported ==
  /\ [][SubmitStep =>
          {detail_futures'[i].train_id : i \in DOMAIN detail_futures'}
             = ReportedIds]_vars
  /\ [][PublishStep => DOMAIN heap'[trains_data'] = AcceptedIds]_vars

\* C24, the part that holds: the keys of a published snapshot are the ids of
\* the submitted detail calls that returned a detail with valid coordinates
\* and whose record could be assembled.
C24_PublishedAreAccepted ==
  [][PublishStep => DOMAIN heap'[trains_data'] = AcceptedIds]_vars

\* the first summary of the combined list with this train id
FirstSummary(trains, train_id) ==
  trains[CHOOSE n \in DOMAIN trains :
           /\ StrOf(trains[n].trainNumber) = train_id
           /\ \A m \in 1..(n - 1) : StrOf(trains[m].trainNumber) # train_id]

\* C25: the detail call of a train id is submitted with the first summary of
\* that id in the combined list all_trains, and a published record has the
\* train number and the source station of the summary its call was
\* submitted with.
C25_FirstOccurrenceWins ==
  /\ [][SubmitStep =>
          \A i \in DOMAIN detail_futures' :
             detail_futures'[i].train_basic =
               FirstSummary(all_trains, detail_futures'[i].train_id)]_vars
  /\ [][PublishStep =>
          \A id \in DOMAIN heap'[trains_data'] :
             \E i \in Tasks :
                /\ detail_futures[i].train_id = id
                /\ heap'[trains_data'][id].trainNumber =
                     detail_futures[i].train_basic.trainNumber
                /\ heap'[trains_data'][id].sourceStation =
                     detail_futures[i].train_basic.source_station]_vars

\* train 1 was kept from the body of the first station, where its number is
\* a string, and dropped from the body of the second station, which gave
\* train 2
C25_Witness ==
  /\ mpc = "details"
  /\ \E i, j \in Tasks :
       /\ detail_futures[i].train_id = "1"
       /\ detail_futures[i].train_basic.trainNumber.k = "str"
       /\ detail_futures[i].train_basic.source_station = major_stations[1]
       /\ detail_futures[j].train_id = "2"
       /\ detail_futures[j].train_basic.trainService = "dict"
       /\ detail_futures[j].train_basic.source_station = major_stations[2]

(***************************************************************************)
(* Properties of the route of a record (SpecRoute)                         *)
(***************************************************************************)
\* the [lng, lat] pairs of the stops that pass a test, in their order
PairsOf(stops, Test(_)) ==
  LET kept == SelectSeq(stops, Test)
  IN  [n \in DOMAIN kept |->
         <<Float(kept[n].longitude), Float(kept[n].latitude)>>]
Parsable(stop) == FloatOk(stop.latitude) /\ FloatOk(stop.longitude)
NonZero(stop) == Truthy(stop.latitude) /\ Truthy(stop.longitude)
Usable(stop) == NonZero(stop) /\ Parsable(stop)

\* C26 as stated: the route of a published record is made of the stops of
\* its stop list whose latitude and longitude are present and parse as
\* numbers, in their order.
C26_RouteOfParsableStops ==
  \A id \in DOMAIN Published :
    Published[id].route = PairsOf(Published[id].trainStops, Parsable)

\* C26: the route of a published record is made of the stops of its stop
\* list whose latitude and longitude are truthy (neither missing, nor null,
\* nor 0, nor empty) and parse as numbers, in their order; a stop that is
\* skipped does not end the extraction.
C26_RouteOfUsableStops ==
  \A id \in DOMAIN Published :
    Published[id].route = PairsOf(Published[id].trainStops, Usable)

\* a first stop whose latitude is the number 0 was skipped and the second
\* stop is the route
C26_Witness ==
  \E id \in DOMAIN Published :
    /\ Len(Published[id].trainStops) = 2
    /\ Published[id].trainStops[1].latitude = Raw("num", 0)
    /\ Published[id].trainStops[1].longitude = Raw("str", -91)
    /\ Published[id].route = << <<-85, 395>> >>

(***************************************************************************)
(* Properties of the station index (SpecStations)                          *)
(***************************************************************************)
CanPoll(w) == loop[w] = "top" /\ running /\ mpc = "idle" /\ cycle < MaxCycles
IndexStep == IndexFail \/ \E body \in IndexBodies : IndexRespond(body)
StationsReturned == api.pc = "done" /\ api.op \in {"stations", "major"}

\* C27: whatever the state of the station index and of its load, a polling
\* thread at the top of its loop can begin a cycle and a get_all_trains()
\* call can begin; the steps of the load leave the polling thread and the
\* snapshot as they are; and a get_all_stations() or get_major_stations()
\* call that ends while the index is empty returns an empty list.
C27_PollingWithoutIndex ==
  /\ [](\A w \in Threads : CanPoll(w) => ENABLED BeginCycle(w))
  /\ [](NoReadCall => ENABLED ReadBegin)
  /\ [][IndexStep => UNCHANGED <<running, loop, mpc, cycle, trains_data,
                                 heap>>]_vars
  /\ []((StationsReturned /\ ~IndexTruthy(station_index)) =>
          ~api.raised /\ api.majors = <<>> /\ api.discovered = {})

\* the load of the index failed, a cycle has published trains, and a
\* get_all_stations() call returned
C27_Witness ==
  /\ station_index = EmptyIndex /\ index_loads = 0
  /\ DOMAIN Published # {}
  /\ api.pc = "done" /\ api.op = "stations"

\* the load of the index has not ended and a cycle has published trains
C27_WitnessLoading ==
  /\ station_index = EmptyIndex /\ index_loads > 0
  /\ DOMAIN Published # {}
  /\ api.pc = "done" /\ api.op = "major"

(***************************************************************************)
(* Properties of the load of the station index over restarts (SpecReload)  *)
(***************************************************************************)
\* a polling thread has been started before
Launched == \E t \in Threads : loop[t] \notin {"none", "created"}

\* C28: a load of the station index is launched only when none was launched
\* before, and an index that a load has written is not written again.
C28_IndexLoadedOnce ==
  /\ [][index_loads' > index_loads => ~Launched]_vars
  /\ [][IndexTruthy(station_index) => station_index' = station_index]_vars

(***************************************************************************)
(* Properties of published dicts next to later cycles (SpecRead)           *)
(***************************************************************************)
\* C29: every dict that was published and is still referenced has the
\* content it had when it was published, the dict a cycle assembles is none
\* of them, and a step that does not publish leaves the content of the
\* visible snapshot as it is.
C29_PublishedNeverModified ==
  /\ [](\A r \in DOMAIN pubval : r \in DOMAIN heap /\ heap[r] = pubval[r])
  /\ [](new_trains_data # NoRef => new_trains_data \notin DOMAIN pubval)
  /\ [][trains_data' = trains_data
          => heap'[trains_data'] = heap[trains_data]]_vars

\* a cycle assembles records while the records of the cycle before it are
\* visible
C29_Witness ==
  /\ mpc = "details" /\ cycle = MaxCycles
  /\ DOMAIN Published # {}
  /\ DOMAIN Building # {}
  /\ Building # Published

(***************************************************************************)
(* Progress of the poll loop (FairLoop)                                    *)
(***************************************************************************)
Polling(w) == loop[w] \in {"top", "cycle", "sleep", "backoff"}

\* C30: a polling thread leaves its loop only in a step that finds the flag
\* clear; and when every call of a cycle returns, then from every state in
\* which the flag is set and a polling thread is in its loop, either the flag
\* gets cleared or a further cycle begins, for every cycle up to the number of
\* cycles the model follows.
C30_CyclesKeepBeginning ==
  /\ [][\A w \in Threads :
          (loop[w] # "exited" /\ loop'[w] = "exited") => ~running]_vars
  /\ \A n \in 0..(MaxCycles - 1) :
       (cycle = n /\ running /\ \E w \in Threads : Polling(w))
          ~> (cycle > n \/ ~running)

\* the first cycle raised, nothing was published, and the second cycle has
\* begun
C30_Witness ==
  /\ cycle = 2 /\ mpc = "stations" /\ running
  /\ trains_data = 0 /\ heap[trains_data] = EmptyMap
  /\ \E w \in Threads : loop[w] = "cycle"

(***************************************************************************)
(* Properties of concurrent detail calls (Spec)                            *)
(***************************************************************************)
\* the request of the call was answered and line 176 stored the answer
Fetched(tk) == tk.stored /\ tk.data # NullDetail

\* C31: a detail call whose request was answered returns the answer, also
\* when it finds the cache above the cap and other workers insert or purge
\* entries while it scans and purges.
C31_FetchedIsReturned ==
  \A i \in Tasks :
    LET tk == detail_futures[i]
    IN  (tk.pc \in {"done", "collected"} /\ Fetched(tk)) =>
          tk.ret = Returned(tk.data)

\* the call of worker i removes the entry of k in this step
Removes(i, k) ==
  /\ detail_futures[i].pc = "purge"
  /\ k \in detail_futures[i].old_keys
  /\ detail_futures'[i] # detail_futures[i]
  /\ k \in DOMAIN cached_train_details
  /\ k \notin DOMAIN cached_train_details'

\* C32: an entry leaves the cache only in a purge step of a call, and the
\* entry that the step removes is older than PurgeAge for that call; it is
\* neither an entry that a call starting now would be served, nor the entry
\* that the purging call has stored itself.
C32_PurgeRemovesOnlyOld ==
  [][\A k \in DOMAIN cached_train_details \ DOMAIN cached_train_details' :
       \E i \in Tasks :
         /\ Removes(i, k)
         /\ Old(cached_train_details[k].t, detail_futures[i].current_time)
         /\ ~ServedNow(k)
         /\ k # detail_futures[i].train_id]_vars

(***************************************************************************)
(* A cycle whose station calls all fail (SpecLoop)                         *)
(***************************************************************************)
\* every station call of the cycle has returned [] and was collected
AllStationsEmpty ==
  /\ mpc = "stations"
  /\ \A s \in Stations :
       /\ station_futures[s].pc = "collected"
       /\ station_futures[s].result = ListOf(<<>>)
\* the cycle has submitted no detail call
NoDetailCalls == mpc = "details" /\ detail_futures = <<>>

\* C33: when every station call of a cycle returned [], the cycle goes on
\* without a detail call and without raising; such a cycle can assign at once,
\* and the step that ends it assigns a new empty dict in place of the
\* published one and puts the polling thread to sleep for the normal
\* interval, not for the backoff.
C33_EmptyCyclePublishes ==
  /\ [][/\ (AllStationsEmpty /\ mpc' # mpc) => NoDetailCalls'
        /\ NoDetailCalls =>
             /\ mpc' # mpc => mpc' = "idle"
             /\ \A w \in Threads :
                  (InCycle(w) /\ loop'[w] # loop[w]) =>
                     /\ loop'[w] = "sleep"
                     /\ SleepSeconds(loop'[w]) = NormalInterval
                     /\ trains_data' = new_trains_data
                     /\ trains_data' # trains_data
                     /\ Published' = EmptyMap]_vars
  /\ [](NoDetailCalls => \A w \in Threads : InCycle(w) => ENABLED Publish(w))

\* the second cycle found no train: the snapshot is empty and the polling
\* thread sleeps for the normal interval, while the cache holds what the
\* first cycle fetched
C33_Witness ==
  /\ \E w \in Threads : loop[w] = "sleep"
  /\ cycle = 2 /\ mpc = "idle"
  /\ Published = EmptyMap
  /\ DOMAIN cached_train_details = NumericIds

\* every station call of a cycle failed while trains are published
C33_WitnessReplaced ==
  /\ NoDetailCalls
  /\ DOMAIN Published # {}

(***************************************************************************)
(* Null values and the detail cache (SpecCache)                            *)
(***************************************************************************)
\* C34: no entry of the cache holds None, and a call that returned None has
\* not executed line 176, so that a call for the same id is never served
\* None from the cache.
C34_CacheHoldsNoNull ==
  /\ \A id \in DOMAIN cached_train_details :
       cached_train_details[id].data # NullDetail
  /\ \A i \in Tasks :
       LET tk == detail_futures[i]
       IN  (tk.pc = "done" /\ tk.ret = Returned(NullDetail)) =>
             ~tk.stored /\ (tk.reqs = 0 => ~tk.prev.has)

(***************************************************************************)
(* Summaries without a train number (SpecPool)                             *)
(***************************************************************************)
\* the train number of the summary is absent or null
NoNumber(train) == train.shape = "dict" /\ train.trainNumber.k = "none"

\* C35: no detail call is submitted for a summary without a train number,
\* and no record of a published snapshot was built from such a summary.
C35_NoNumberLeftOut ==
  /\ \A i \in Tasks : ~NoNumber(detail_futures[i].train_basic)
  /\ \A id \in DOMAIN Published : Published[id].trainNumber.k # "none"

(***************************************************************************)
(* start() on a running service (SpecLoop, SpecRace)                       *)
(***************************************************************************)
\* caller c is inside a start() call, past the test of line 48
InStart(c) == calls[c].pc \in {"start_set", "start_new", "start_run"}

\* the step is a whole start() call of caller c that changes nothing of the
\* service
StartReturns(c) ==
  /\ calls'[c].pc = "idle"
  /\ UNCHANGED <<running, thread, loop, index_loads>>

\* C36: a start() call that finds the flag set can be made and is one step
\* that returns and changes nothing: a caller gets past line 48 only when
\* the flag is clear; a Thread object is created, and self.thread assigned,
\* only by a caller that got past line 48; and the flag is set only by such
\* a caller and cleared only by the first step of a stop() call.
C36_StartWhileRunningNoOp ==
  /\ [](\A c \in Callers :
          (running /\ calls[c].pc = "idle" /\ Unused # {}) =>
             ENABLED (StartTest(c) /\ StartReturns(c)))
  /\ [][/\ \A c \in Callers : (~InStart(c) /\ InStart(c)') => ~running
        /\ (thread' # thread
              \/ \E t \in Threads : loop[t] = "none" /\ loop'[t] # "none") =>
             \E c \in Callers :
               calls[c].pc = "start_new" /\ calls'[c].pc = "start_run"
        /\ (~running /\ running') =>
             \E c \in Callers : calls[c].pc = "start_set"
        /\ (running /\ ~running') =>
             \E c \in Callers :
               calls[c].pc = "idle" /\ calls'[c].pc = "stop_test"]_vars

\* the service is running, its polling thread is in the detail phase of a
\* cycle, and a start() call made now returns at line 48
C36_Witness ==
  /\ running /\ thread # NoThread /\ loop[thread] = "cycle"
  /\ mpc = "details"
  /\ calls[1].pc = "idle" /\ Unused # {}
  /\ ENABLED (StartTest(1) /\ StartReturns(1))

(***************************************************************************)
(* The stopped service (SpecRace)                                          *)
(***************************************************************************)
\* the flag is clear, no start() or stop() call is in progress and the last
\* call of every caller returned: a stop() call has returned, or the service
\* was never started, and no start() call was made since
Quiet ==
  /\ ~running
  /\ \A c \in Callers : calls[c].pc = "idle" /\ ~calls[c].raised

\* C37: while the service is stopped and no call is in progress, no step
\* assigns self.trains_data, changes the published dict or changes the
\* detail cache.
C37_StoppedServiceIsQuiet ==
  [][Quiet => /\ trains_data' = trains_data
              /\ Published' = Published
              /\ cached_train_details' = cached_train_details]_vars

(***************************************************************************)
(* The trains of a discovered station (SpecDiscover)                       *)
(***************************************************************************)
\* the stop has this station name and coordinates inside the box
InBoxStopOf(stop, name) ==
  /\ stop.station.k = "dict" /\ stop.station.designation = name
  /\ Truthy(stop.latitude) /\ Truthy(stop.longitude)
  /\ FloatOk(stop.latitude) /\ FloatOk(stop.longitude)
  /\ InBox(Float(stop.latitude), Float(stop.longitude))

\* the ids of the trains of a snapshot that have such a stop, in the order
\* in which the snapshot is visited
TrainsWithStop(snap, name) ==
  LET trains == Records(snap)
      ids == [n \in DOMAIN trains |-> trains[n].trainId]
  IN  SelectSeq(ids,
        LAMBDA id : \E n \in DOMAIN snap[id].trainStops :
                      InBoxStopOf(snap[id].trainStops[n], name))

FirstFive(seq) == SubSeq(seq, 1, IF Len(seq) < 5 THEN Len(seq) ELSE 5)

\* C38: in what a call of get_all_stations that read one snapshot returns,
\* the trains of a discovered station are the first five trains of that
\* snapshot that have a stop with the name of the station and coordinates
\* inside the box.
C38_DiscoveredListsItsTrains ==
  (AllStationsReturned /\ Cardinality(api.refs) = 1) =>
    \A d \in api.discovered : \A r \in api.refs :
      d.trains = FirstFive(TrainsWithStop(heap[r], d.name))

\* C38, the part that holds: a discovered station lists exactly the first
\* train of the snapshot that has such a stop.
C38_DiscoveredListsFirstTrain ==
  (AllStationsReturned /\ Cardinality(api.refs) = 1) =>
    \A d \in api.discovered : \A r \in api.refs :
      /\ TrainsWithStop(heap[r], d.name) # <<>>
      /\ d.trains = <<Head(TrainsWithStop(heap[r], d.name))>>

(***************************************************************************)
(* Keys and ids of the snapshot (Spec)                                     *)
(***************************************************************************)
\* C39: every key of the published dict and of the dict being built is the
\* trainId of its record, and this trainId is str() of the trainNumber of
\* the record.
C39_KeyIsTrainId ==
  \A snap \in {Published} \cup
              (IF new_trains_data = NoRef THEN {} ELSE {Building}) :
    \A id \in DOMAIN snap :
      /\ snap[id].trainId = id
      /\ snap[id].trainId = StrOf(snap[id].trainNumber)

\* a train whose number the station reported as a string is published next
\* to one whose number is a JSON number
C39_Witness ==
  /\ mpc = "idle"
  /\ DOMAIN Published = {"1", "2"}
  /\ Published["1"].trainNumber = Raw("str", 1)
  /\ Published["2"].trainNumber = Raw("num", 2)

====
